---- MODULE Spec2Model ----
(***************************************************************************)
(* Model of the Prepzo voice-agent backend: the Conversation Store         *)
(* (ConversationManager), the Turn Interceptor (PrepzoAgent.llm_node) and  *)
(* the Tool Registry, in the two variants the repository carries:          *)
(*   "root" : src/conversation_manager.py, src/agent.py, src/api.py        *)
(*   "opti" : src/opti/data/conversation_manager.py, src/opti/agent/*.py,  *)
(*            src/opti/tools/*.py                                          *)
(* Strings are sequences of one-character strings, so that split, strip    *)
(* and substring search are computed the way Python computes them.         *)
(***************************************************************************)
EXTENDS Integers, Sequences, FiniteSets, TLC

\* ------------------------------------------------------------------ bounds
\* Largest number of messages one behaviour appends to the store.
MaxMessages == 3
\* Largest number of initialize_session calls in one behaviour.
MaxInits == 2
\* Longest message content enumerated for the email-extraction check.
MaxContentLen == 4
\* Largest number of tool invocations in one behaviour.
MaxToolCalls == 2
\* Largest number of chunks the LLM stream delivers in one turn.
MaxChunks == 3
\* Largest number of llm_node calls (LLM turns) in one behaviour.
MaxTurns == 2
\* Number of concurrent callers of safe_generate.
MaxCallers == 3

\* ------------------------------------------------------------ string model
Range(s) == {s[i] : i \in 1..Len(s)}

\* Python's whitespace (only the blank is in the modelled alphabet).
Whitespace == {" "}

\* The characters add_message strips from an '@' word: word.strip(".,!?").
StripChars == {".", ",", "!", "?"}

RECURSIVE LStrip(_, _)
LStrip(s, chars) ==
  IF s # <<>> /\ Head(s) \in chars THEN LStrip(Tail(s), chars) ELSE s

RECURSIVE RStrip(_, _)
RStrip(s, chars) ==
  IF s # <<>> /\ s[Len(s)] \in chars
    THEN RStrip(SubSeq(s, 1, Len(s) - 1), chars)
    ELSE s

\* str.strip(chars): removes leading and trailing characters that are in chars.
Strip(s, chars) == RStrip(LStrip(s, chars), chars)

\* str.split(): the maximal runs of non-whitespace characters, left to right.
RECURSIVE SplitFrom(_, _, _)
SplitFrom(s, i, word) ==
  IF i > Len(s)
    THEN (IF word = <<>> THEN <<>> ELSE <<word>>)
    ELSE IF s[i] \in Whitespace
      THEN (IF word = <<>> THEN <<>> ELSE <<word>>) \o SplitFrom(s, i + 1, <<>>)
      ELSE SplitFrom(s, i + 1, Append(word, s[i]))

Split(s) == SplitFrom(s, 1, <<>>)

\* Python's `sub in s` for strings.
Contains(s, sub) ==
  \E i \in 1..(Len(s) - Len(sub) + 1) : SubSeq(s, i, i + Len(sub) - 1) = sub

\* Python's `"@" in word`.
HasAt(word) == "@" \in Range(word)

RECURSIVE SelectAtWords(_)
SelectAtWords(words) ==
  IF words = <<>> THEN <<>>
  ELSE (IF HasAt(Head(words)) THEN <<Head(words)>> ELSE <<>>)
         \o SelectAtWords(Tail(words))

\* ------------------------------------------------------------------- state
VARIABLES
  variant,                \* "root" or "opti": which copy of the code runs
  participant_id,         \* ConversationManager.participant_id
  messages,               \* ConversationManager.messages
  message_count,          \* ConversationManager.message_count
  emails,                 \* ConversationManager.emails
  ready,                  \* asyncio ready queue: tasks created, not yet run
  conversation_histories, \* the session's row in table conversation_histories
  user_emails,            \* records upserted into table user_emails, in order
  passed,                 \* history: the messages handed to add_message
  extracted,              \* history: emails the last add_message extracted
  inits,                  \* number of initialize_session calls so far
  last_tool,              \* the last tool invocation and what it did
  tool_calls_made,        \* number of tool invocations so far
  agent_state,            \* the agent_state attribute of the tool object
  session_emails,         \* _session_emails[room_name], None when not cached
  turn_pc,                \* llm_node: "idle", "streaming", "complete", "raised"
  buffer,                 \* llm_node local `buffer`
  suppress_output_this_turn, \* llm_node local of that name
  received,               \* chunks the LLM stream delivered this turn
  forwarded,              \* chunks llm_node yielded downstream this turn
  manual_calls,           \* request_resume calls llm_node made this turn
  says,                   \* session.say calls llm_node made this turn
  trigger_result,         \* how this turn's manual request_resume call ended
  turns,                  \* number of llm_node calls started
  triggered_before,       \* an earlier turn detected the trigger phrase
  resume_analysis_loaded, \* PrepzoAgent.resume_analysis_loaded (root)
  phase,                  \* position of the session's turn loop
  turn_log,               \* what the current user turn has done so far
  turn_base,              \* number of stored messages when the user turn began
  init_result,            \* how the last initialize_session call ended
  entry,                  \* the session entrypoint: position, log, shutdown hook
  uploads,                \* the files in the uploads folder
  accepted,               \* history: sessions whose upload the endpoint saved
  email_logs,             \* the rows of table email_logs, by id
  smtp_connections,       \* number of SMTP connections opened so far
  last_send,              \* history: what the last send_email call did
  sem,                    \* _SEM of google_llm_wrapper: its size and value
  callers,                \* the safe_generate calls, by caller
  llm_configs,            \* row 1 of table llm_configs, None when missing
  dynamic_llm,            \* the DynamicLLM object and its last refresh
  failed_writes           \* history: add_message calls whose durable write failed

storeVars == <<variant, participant_id, messages, message_count, emails, ready,
               conversation_histories, user_emails, passed, extracted, inits>>

toolVars == <<last_tool, tool_calls_made, agent_state, session_emails>>

turnVars == <<turn_pc, buffer, suppress_output_this_turn, received, forwarded,
              manual_calls, says, trigger_result, turns, triggered_before,
              resume_analysis_loaded>>

sessionVars == <<phase, turn_log, turn_base, init_result, entry>>

uploadVars == <<uploads, accepted>>

mailVars == <<email_logs, smtp_connections, last_send>>

llmVars == <<sem, callers>>

dynVars == <<llm_configs, dynamic_llm>>

serviceVars == <<uploadVars, mailVars, llmVars, dynVars>>

historyVars == <<failed_writes>>

vars == <<storeVars, toolVars, turnVars, sessionVars, serviceVars, historyVars>>

Variants == {"root", "opti"}

None == "None"
NoRow == [exists |-> FALSE]

\* The room name, used as session id and as participant id by the entrypoint.
RoomName == "room-1"

\* --------------------------------------------------------- add_message
\* The emails add_message extracts from one message, in word order.
\* Mutant of StripWord: only the left end of the word is stripped.
StripWordLeftOnly(word) == LStrip(word, StripChars)

StripWord(word) == Strip(word, StripChars)

RECURSIVE StripEach(_)
StripEach(words) ==
  IF words = <<>> THEN <<>>
  ELSE <<StripWord(Head(words))>> \o StripEach(Tail(words))

ExtractEmails(message) ==
  IF message.role = "user" /\ HasAt(message.content)
    THEN StripEach(SelectAtWords(Split(message.content)))
    ELSE <<>>

\* The tasks one add_message call creates: one store_user_email per '@' word,
\* then one update_conversation_history. `call` is the number of the
\* add_message call that created the task (history).
TasksOf(message, call) ==
  [i \in 1..Len(ExtractEmails(message)) |->
      [kind |-> "store_user_email", email |-> ExtractEmails(message)[i],
       history_data |-> [raw_conversation |-> <<>>, message_count |-> 0,
                         participant_id |-> "None", user_email |-> "None"],
       call |-> call]]
  \o <<[kind |-> "update_conversation_history", email |-> "None",
        history_data |-> [raw_conversation |-> <<>>, message_count |-> 0,
                          participant_id |-> "None", user_email |-> "None"],
        call |-> call]>>

AppendMessage(msgs, message) == Append(msgs, message)

\* Mutant of IncrementCount: the counter update is left out.
IncrementCountForgotten(count) == count

IncrementCount(count) == count + 1

RECURSIVE TasksOfAll(_, _)
TasksOfAll(msgs, calls) ==
  IF msgs = <<>> THEN <<>>
  ELSE TasksOf(Head(msgs), calls + 1) \o TasksOfAll(Tail(msgs), calls + 1)

\* asyncio.create_task: the new tasks go to the tail of the ready queue.
\* Mutant of Enqueue: new tasks run before the tasks already queued.
EnqueueFirst(queue, tasks) == tasks \o queue

Enqueue(queue, tasks) == queue \o tasks

RECURSIVE AppendAll(_, _)
AppendAll(msgs, new) ==
  IF new = <<>> THEN msgs
  ELSE AppendAll(AppendMessage(msgs, Head(new)), Tail(new))

RECURSIVE CountAfter(_, _)
CountAfter(count, new) ==
  IF new = <<>> THEN count ELSE CountAfter(IncrementCount(count), Tail(new))

\* The effect of calling add_message once for every message of `new`, in order.
add_messages(new) ==
  /\ messages' = AppendAll(messages, new)
  /\ message_count' = CountAfter(message_count, new)
  /\ ready' = Enqueue(ready, TasksOfAll(new, Len(passed)))
  /\ passed' = passed \o new
  /\ extracted' = IF new = <<>> THEN extracted ELSE ExtractEmails(new[Len(new)])

add_message(message) == add_messages(<<message>>)

\* ------------------------------------------------- durable storage (Supabase)
\* The first '@' word of the last user message that contains '@', as the loop
\* of update_conversation_history leaves it in history_data["user_email"].
RECURSIVE HistoryEmail(_)
HistoryEmail(msgs) ==
  IF msgs = <<>> THEN None
  ELSE LET m == msgs[Len(msgs)] IN
       IF m.role = "user" /\ HasAt(m.content)
         THEN StripWord(Head(SelectAtWords(Split(m.content))))
         ELSE HistoryEmail(SubSeq(msgs, 1, Len(msgs) - 1))

NoHistory == [raw_conversation |-> <<>>, message_count |-> 0,
              participant_id |-> None, user_email |-> None]

\* history_data as update_conversation_history builds it, without the
\* "conversation" entry, which is a reference to the live list.
HistoryData(msgs, count, participant) ==
  [raw_conversation |-> msgs, message_count |-> count,
   participant_id |-> participant, user_email |-> HistoryEmail(msgs)]

\* Mutant of UpsertHistory: the upsert adds to the stored array instead of
\* replacing it.
UpsertHistoryMerges(row, conversation, data) ==
  [exists |-> TRUE,
   conversation |-> IF row.exists THEN row.conversation \o conversation
                    ELSE conversation,
   raw_conversation |-> data.raw_conversation,
   message_count |-> IF row.exists THEN row.message_count + data.message_count
                     ELSE data.message_count,
   participant_id |-> data.participant_id,
   user_email |-> IF data.user_email # None THEN data.user_email
                  ELSE IF row.exists THEN row.user_email ELSE None]

\* table.upsert(data).execute() on conversation_histories: columns absent from
\* the payload (user_email when no email was detected) keep their old value.
UpsertHistory(row, conversation, data) ==
  [exists |-> TRUE,
   conversation |-> conversation,
   raw_conversation |-> data.raw_conversation,
   message_count |-> data.message_count,
   participant_id |-> data.participant_id,
   user_email |-> IF data.user_email # None THEN data.user_email
                  ELSE IF row.exists THEN row.user_email ELSE None]

Task(kind, email, history_data, call) ==
  [kind |-> kind, email |-> email, history_data |-> history_data, call |-> call]

\* ------------------------------------------------------ ConversationManager
Participants == {RoomName}

\* ConversationManager.initialize_session: sets participant_id and upserts an
\* empty session row; a storage error is logged and swallowed.
\* Mutant of ResetOnInit: initialize_session also empties the in-memory list.
ResetOnInitClears(msgs) == <<>>

\* initialize_session leaves self.messages alone (it only resets the row).
ResetOnInit(msgs) == msgs

\* session_data of initialize_session: an empty conversation, count 0.
SessionData(participant) ==
  [raw_conversation |-> <<>>, message_count |-> 0,
   participant_id |-> participant, user_email |-> None]

\* How initialize_session ends when store_session succeeded (ok) or raised:
\* the except clause logs the error and the call returns.
\* Mutant of InitializeResult: the storage error is re-raised to the caller.
InitializeResultPropagates(ok) == IF ok THEN "returned" ELSE "raised"

InitializeResult(ok) == "returned"

initialize_session_stored(participant, ok) ==
  /\ inits < MaxInits
  /\ inits' = inits + 1
  /\ participant_id' = participant
  /\ messages' = ResetOnInit(messages)
  /\ conversation_histories' =
       IF ok
         THEN UpsertHistory(conversation_histories, <<>>,
                            SessionData(participant))
         ELSE conversation_histories
  /\ init_result' = InitializeResult(ok)
  /\ UNCHANGED <<variant, message_count, emails, ready, user_emails, passed,
                 extracted>>
  /\ UNCHANGED <<toolVars, turnVars, phase, turn_log, turn_base>>

\* initialize_session with either outcome of the storage call.
initialize_session(participant) ==
  \E ok \in BOOLEAN : initialize_session_stored(participant, ok)

InitializeSession ==
  /\ \E participant \in Participants : initialize_session(participant)
  /\ UNCHANGED <<entry, serviceVars, historyVars>>

\* ConversationManager.store_user_email, run as the task add_message created.
\* Mutant of AlreadyStored: the membership test on self.emails is dropped.
AlreadyStoredNever(email, seen) == FALSE

AlreadyStored(email, seen) == email \in seen

store_user_email(email) ==
  IF AlreadyStored(email, emails)
    THEN UNCHANGED <<emails, user_emails>>
    ELSE \E ok \in BOOLEAN :
           IF ok
             THEN /\ user_emails' = Append(user_emails,
                        [session_id |-> RoomName,
                         participant_id |-> participant_id, email |-> email])
                  /\ emails' = emails \cup {email}
             ELSE UNCHANGED <<emails, user_emails>>

RunStoreUserEmail ==
  /\ ready # <<>>
  /\ Head(ready).kind = "store_user_email"
  /\ store_user_email(Head(ready).email)
  /\ ready' = Tail(ready)
  /\ UNCHANGED <<variant, participant_id, messages, message_count,
                 conversation_histories, passed, extracted, inits>>
  /\ UNCHANGED <<toolVars, turnVars, sessionVars, serviceVars, historyVars>>

\* src/opti/data/conversation_manager.py update_conversation_history: no
\* suspension point, the snapshot is built and upserted in one step; `ok` is
\* whether the upsert succeeded.
update_conversation_history_opti(ok) ==
  /\ variant = "opti"
  /\ ready # <<>>
  /\ Head(ready).kind = "update_conversation_history"
  /\ conversation_histories' =
       IF ok
         THEN UpsertHistory(conversation_histories, messages,
                            HistoryData(messages, message_count, participant_id))
         ELSE conversation_histories
  /\ ready' = Tail(ready)
  /\ UNCHANGED <<variant, participant_id, messages, message_count, emails,
                 user_emails, passed, extracted, inits>>
  /\ UNCHANGED <<toolVars, turnVars, sessionVars, serviceVars>>

\* Mutant of RunUpdateOpti: a failed upsert puts the write back on the queue.
RunUpdateOptiRetries ==
  /\ variant = "opti"
  /\ ready # <<>>
  /\ Head(ready).kind = "update_conversation_history"
  /\ \E ok \in BOOLEAN :
       /\ conversation_histories' =
            IF ok
              THEN UpsertHistory(conversation_histories, messages,
                                 HistoryData(messages, message_count, participant_id))
              ELSE conversation_histories
       /\ ready' = IF ok THEN Tail(ready) ELSE Append(Tail(ready), Head(ready))
  /\ UNCHANGED <<variant, participant_id, messages, message_count, emails,
                 user_emails, passed, extracted, inits>>
  /\ UNCHANGED <<toolVars, turnVars, sessionVars, serviceVars, historyVars>>

\* The write task of the opti variant with either outcome of the upsert.
RunUpdateOpti ==
  /\ \E ok \in BOOLEAN : update_conversation_history_opti(ok)
  /\ UNCHANGED historyVars

\* src/conversation_manager.py update_conversation_history: builds history_data
\* and awaits a new task update_tables, which runs after the tasks already
\* queued.
RunUpdateRoot ==
  /\ variant = "root"
  /\ ready # <<>>
  /\ Head(ready).kind = "update_conversation_history"
  /\ ready' = Enqueue(Tail(ready),
                <<Task("update_tables", None,
                       HistoryData(messages, message_count, participant_id),
                       Head(ready).call)>>)
  /\ UNCHANGED <<variant, participant_id, messages, message_count, emails,
                 conversation_histories, user_emails, passed, extracted, inits>>
  /\ UNCHANGED <<toolVars, turnVars, sessionVars, serviceVars, historyVars>>

\* update_tables of src/conversation_manager.py: two upserts of the same
\* history_data, whose "conversation" is the live list at the time it runs.
update_tables(ok) ==
  /\ ready # <<>>
  /\ Head(ready).kind = "update_tables"
  /\ conversation_histories' =
       IF ok
         THEN UpsertHistory(conversation_histories, messages,
                            Head(ready).history_data)
         ELSE conversation_histories
  /\ ready' = Tail(ready)
  /\ UNCHANGED <<variant, participant_id, messages, message_count, emails,
                 user_emails, passed, extracted, inits>>
  /\ UNCHANGED <<toolVars, turnVars, sessionVars, serviceVars>>

\* update_tables with either outcome of the upserts.
RunUpdateTables ==
  /\ \E ok \in BOOLEAN : update_tables(ok)
  /\ UNCHANGED historyVars

RunTask == RunStoreUserEmail \/ RunUpdateOpti \/ RunUpdateRoot \/ RunUpdateTables

\* ------------------------------------------------------------ Tool Registry
\* A Python str value a tool returns, and the absence of a return value when
\* the tool raised.
PyStr(text) == [type |-> "str", text |-> text]
NoReturn == [type |-> "none", text |-> ""]

\* What one tool invocation did: the value returned, the exception raised past
\* the tool boundary (None when it returned), the contents it logged.
ToolOutcome(returned, raised, logged) ==
  [returned |-> returned, raised |-> raised, logged |-> logged]

Returned(text, logged) == ToolOutcome(PyStr(text), None, logged)
Raised(exception, logged) == ToolOutcome(NoReturn, exception, logged)

\* An f-string made of a literal prefix and one formatted value.
FStr(prefix, value) == [prefix |-> prefix, value |-> value]

\* Outcomes of the external calls one tool invocation makes.
Outcome == {"ok", "raise"}

DefaultEnv ==
  [context |-> "ok", publish |-> "ok", participants |-> "some",
   embedding |-> "ok", stats |-> "namespaces", query |-> "matches",
   lookup |-> "ok", search |-> "answer", configured |-> TRUE,
   file |-> TRUE, analysis |-> "ok", call |-> "ok"]

\* Mutant of LogToolResult: the conversation manager is missing, so the helper
\* only logs a warning.
LogToolResultDropped(result_content) == <<>>

\* _log_tool_result: the messages the helper appends (add_message never raises
\* before it has appended).
LogToolResult(result_content) ==
  <<[role |-> "tool_result", content |-> result_content]>>

\* ---- knowledge-base search
SearchErrorText == "Sorry, I encountered an error while searching the knowledge base."
NoMatchesText == "I couldn't find specific information on that topic in the knowledge base."
NoTextText == "I found some related entries, but couldn't retrieve the specific text snippets."
KnowledgeText == "Based on the knowledge:\n\n<context>"
KnowledgeToolErrorText == "I encountered an error trying to search the knowledge base."

\* PineconeService.search: the namespaces it queries.
NamespacesToQuery(env) ==
  IF env.stats = "namespaces" THEN <<"ns">> ELSE <<"">>

\* PineconeService.search: every exception is caught and turned into a string.
\* A failure of the stats call only changes the namespaces that are queried.
PineconeSearch(query, env) ==
  LET namespaces_to_query == NamespacesToQuery(env) IN
  IF Strip(query, Whitespace) = <<>> \/ env.embedding = "raise"
    THEN Returned(SearchErrorText, <<>>)
  ELSE IF env.query = "raise" THEN Returned(SearchErrorText, <<>>)
  ELSE IF env.query = "no_matches" THEN Returned(NoMatchesText, <<>>)
  ELSE IF env.query = "matches_without_text" THEN Returned(NoTextText, <<>>)
  ELSE Returned(KnowledgeText, <<>>)

\* KnowledgeTools.search_knowledge_base and AssistantFnc.search_knowledge_base
\* (the latter through the pinecone_search wrapper): log and return the text,
\* or the fixed error text if the search raised.
search_knowledge_base(query, env) ==
  LET results == PineconeSearch(query, env) IN
  IF results.raised = None
    THEN Returned(results.returned.text, LogToolResult(results.returned.text))
    ELSE Returned(KnowledgeToolErrorText, LogToolResult(KnowledgeToolErrorText))

\* ---- web search
WebUnavailableText == "Web search is currently unavailable due to a configuration issue."
WebApiIssueText == "Sorry, I couldn't get an answer due to an API issue."
WebErrorText == "Sorry, an error occurred during the web search: <e>"
WebAnswerText == "<answer>"
WebToolErrorText == "Unable to access current information due to an internal error: <e>"

\* PerplexityService.web_search.
PerplexitySearch(v, env) ==
  IF env.search = "unconfigured"
    THEN (IF v = "opti" THEN Returned(WebUnavailableText, <<>>)
          ELSE Raised("AttributeError", <<>>))
  ELSE IF env.search = "raise" THEN Returned(WebErrorText, <<>>)
  ELSE IF env.search = "bad_response" THEN Returned(WebApiIssueText, <<>>)
  ELSE Returned(WebAnswerText, <<>>)

\* WebSearchTools.web_search and AssistantFnc.web_search.
web_search(v, env) ==
  LET result == PerplexitySearch(v, env) IN
  IF result.raised = None
    THEN Returned(result.returned.text, LogToolResult(result.returned.text))
    ELSE Returned(WebToolErrorText, LogToolResult(WebToolErrorText))

\* ---- email lookup
\* SupabaseEmailClient.get_email_for_session: the newest record of the session,
\* None when there is none or the query failed.
get_email_for_session(table, env) ==
  IF env.lookup = "raise" \/ table = <<>> THEN None
  ELSE table[Len(table)].email

\* EmailTools.get_user_email and AssistantFnc.get_user_email; `cache` is
\* self._session_emails[room] or None.
get_user_email(cache, table, env) ==
  IF cache # None
    THEN ToolOutcome(PyStr(cache), None,
                     LogToolResult(FStr("get_user_email result: ", cache)))
  ELSE LET email == get_email_for_session(table, env) IN
       IF email # None
         THEN ToolOutcome(PyStr(email), None,
                          LogToolResult(FStr("get_user_email result: ", email)))
         ELSE Returned("email not found",
                       LogToolResult(FStr("get_user_email result: ", "email not found")))

\* The cache after get_user_email.
CacheAfterLookup(cache, table, env) ==
  IF cache # None THEN cache ELSE get_email_for_session(table, env)

\* ---- agent state
StateUpdatedText == "Agent state updated."
StateIssueText == "I encountered an internal issue updating my state."

\* ResumeTools.set_agent_state and AssistantFnc.set_agent_state; env.call is
\* "raise" when formatting the state for the log line raises.
set_agent_state(env) ==
  IF env.call = "ok"
    THEN Returned(StateUpdatedText, LogToolResult(StateUpdatedText))
    ELSE Returned(StateIssueText,
                  LogToolResult("Internal error setting agent state: <e>"))

\* ---- email request
EmailRequestSentText == "Email request sent."
EmailFormText == "Please provide your email address in the form that just appeared below."
EmailIssueText == "There was an issue requesting your email. Please let me know your email address directly."

\* EmailTools.request_email (opti): no exception handler and no result logging.
request_email_opti(env) ==
  IF env.context = "raise" THEN Raised("RuntimeError", <<>>)
  ELSE IF env.publish = "raise" THEN Raised("PublishError", <<>>)
  ELSE Returned(EmailRequestSentText, <<>>)

\* AssistantFnc.request_email (root): sets the agent state, logs, returns.
request_email_root(env) ==
  IF env.call = "ok"
    THEN Returned(EmailFormText,
                  set_agent_state(env).logged \o LogToolResult(EmailFormText))
    ELSE Returned(EmailIssueText, LogToolResult(EmailIssueText))

\* ---- resume request
ResumeRequestSentText == "Resume request sent successfully."
ResumeFormText == "Please upload your resume in the form that just appeared below."
ResumeIssueText == "There was an issue requesting your resume. Could you describe your experience or paste relevant parts of your resume here?"

\* ResumeTools.request_resume (opti): a failure to get the job context or to
\* publish is re-raised as ToolError; nothing is logged to the store.
request_resume_opti(env) ==
  IF env.context = "raise" THEN Raised("ToolError", <<>>)
  ELSE IF env.publish = "raise" THEN Raised("ToolError", <<>>)
  ELSE Returned(ResumeRequestSentText, <<>>)

\* AssistantFnc.request_resume (root).
request_resume_root(env) ==
  IF env.call = "ok"
    THEN Returned(ResumeFormText,
                  set_agent_state(env).logged \o LogToolResult(ResumeFormText))
    ELSE Returned(ResumeIssueText, LogToolResult(ResumeIssueText))

\* ---- resume analysis
AnalysisErrorText == "An unexpected error occurred while attempting to analyze your resume."

\* ResumeTools.get_resume_information (opti) over
\* ResumeAnalysisService.analyze_resume: an error dict is logged and its text
\* returned; with a file found, building the report calls the missing
\* _check_formatting, and the tool's handler answers with the fixed error text.
get_resume_information_opti(env) ==
  IF ~env.configured
    THEN Returned("Service not configured",
                  LogToolResult(FStr("{'error': ", "Service not configured")))
  ELSE IF ~env.file
    THEN Returned("No resume uploaded",
                  LogToolResult(FStr("{'error': ", "No resume uploaded")))
  ELSE Returned(AnalysisErrorText, LogToolResult(AnalysisErrorText))

DocAiUnavailableText == "I cannot analyze the resume at the moment because the required Document AI service is not configured or available."
NoResumeFoundText == "I could not find an uploaded resume for this session to summarize. Please upload it first (PDF or DOCX preferred), or confirm the upload was successful."
EmptySummaryText == "I was able to process the resume file, but the Document AI service did not return a summary."
SummaryErrorText == "I encountered an error while trying to summarize the resume (<file>) with the Document AI service. Details: <e>"

\* AssistantFnc.get_resume_information (root).
get_resume_information_root(env) ==
  IF ~env.configured
    THEN Returned(DocAiUnavailableText, LogToolResult(DocAiUnavailableText))
  ELSE IF ~env.file
    THEN Returned(NoResumeFoundText, LogToolResult(NoResumeFoundText))
  ELSE IF env.analysis = "raise"
    THEN Returned(SummaryErrorText, LogToolResult(SummaryErrorText))
  ELSE IF env.analysis = "empty"
    THEN Returned(EmptySummaryText, LogToolResult(EmptySummaryText))
  ELSE Returned("Here is a summary of the resume:\n\n<summary>",
                LogToolResult("DocAI summary result (<n> chars): <summary>..."))

\* ---- the registry
\* The tools PrepzoAgent hands to the framework (opti), and the function tools
\* AssistantFnc defines (root).
RegisteredTools(v) ==
  IF v = "opti"
    THEN {"get_user_email", "request_email", "web_search",
          "search_knowledge_base", "request_resume", "get_resume_information"}
    ELSE {"get_user_email", "web_search", "request_email", "request_resume",
          "set_agent_state", "search_knowledge_base", "get_resume_information"}

Str_star == <<"S", "T", "A", "R">>
Str_blank == <<" ">>

\* Query arguments the model may pass.
Queries == {Str_star, Str_blank}

\* The outcomes of the external calls that matter to each tool.
EnvFor(tool) ==
  CASE tool = "search_knowledge_base" ->
         {[DefaultEnv EXCEPT !.embedding = e, !.stats = s, !.query = q] :
            e \in Outcome, s \in {"namespaces", "empty", "raise"},
            q \in {"matches", "matches_without_text", "no_matches", "raise"}}
    [] tool = "web_search" ->
         {[DefaultEnv EXCEPT !.search = r] :
            r \in {"answer", "bad_response", "raise", "unconfigured"}}
    [] tool = "get_user_email" ->
         {[DefaultEnv EXCEPT !.lookup = l] : l \in Outcome}
    [] tool \in {"request_email", "request_resume"} ->
         {[DefaultEnv EXCEPT !.context = c, !.publish = p, !.call = k] :
            c \in Outcome, p \in Outcome, k \in Outcome}
    [] tool = "set_agent_state" ->
         {[DefaultEnv EXCEPT !.call = k] : k \in Outcome}
    [] tool = "get_resume_information" ->
         {[DefaultEnv EXCEPT !.configured = c, !.file = f, !.analysis = a] :
            c \in BOOLEAN, f \in BOOLEAN, a \in {"ok", "empty", "raise"}}

\* One invocation of a registered tool.
CallTool(v, tool, query, cache, table, env) ==
  CASE tool = "search_knowledge_base" -> search_knowledge_base(query, env)
    [] tool = "web_search" -> web_search(v, env)
    [] tool = "get_user_email" -> get_user_email(cache, table, env)
    [] tool = "set_agent_state" -> set_agent_state(env)
    [] tool = "request_email" ->
         IF v = "opti" THEN request_email_opti(env) ELSE request_email_root(env)
    [] tool = "request_resume" ->
         IF v = "opti" THEN request_resume_opti(env) ELSE request_resume_root(env)
    [] tool = "get_resume_information" ->
         IF v = "opti" THEN get_resume_information_opti(env)
         ELSE get_resume_information_root(env)

\* ---------------------------------------------- specification of the store

Str_hi == <<"h", "i">>
Str_mail == <<"a", "@", "b", ".">>
Str_two == <<".", "a", "@", "b", " ", "c", "@", "d">>

Contents == {Str_hi, Str_mail, Str_two}

\* The messages the store specification passes to add_message.
SampleMessages ==
  [role : {"user"}, content : Contents]
    \cup [role : {"assistant"}, content : {Str_mail}]

AddMessage ==
  /\ Len(passed) < MaxMessages
  /\ \E message \in SampleMessages : add_message(message)
  /\ UNCHANGED <<variant, participant_id, emails, conversation_histories,
                 user_emails, inits>>
  /\ UNCHANGED <<toolVars, turnVars, sessionVars, serviceVars, historyVars>>

InitStoreVars ==
  /\ variant \in Variants
  /\ participant_id = None
  /\ messages = <<>>
  /\ message_count = 0
  /\ emails = {}
  /\ ready = <<>>
  /\ conversation_histories = NoRow
  /\ user_emails = <<>>
  /\ passed = <<>>
  /\ extracted = <<>>
  /\ inits = 0

NoTool == [tool |-> None, returned |-> NoReturn, raised |-> None, logged |-> 0]

InitToolVars ==
  /\ last_tool = NoTool
  /\ tool_calls_made = 0
  /\ agent_state = None
  /\ session_emails = None

InitTurnVars ==
  /\ turn_pc = "idle"
  /\ buffer = <<>>
  /\ suppress_output_this_turn = FALSE
  /\ received = <<>>
  /\ forwarded = <<>>
  /\ manual_calls = 0
  /\ says = 0
  /\ trigger_result = None
  /\ turns = 0
  /\ triggered_before = FALSE
  /\ resume_analysis_loaded = FALSE

\* The entrypoint before its first statement.
EntryStart ==
  [pc |-> "start", log |-> <<>>, hook_registered |-> FALSE,
   store_created |-> FALSE, fallbacks |-> {}, prompt |-> "none",
   externals_ok |-> TRUE, shutdown |-> "no", flushed |-> FALSE]

InitSessionVars ==
  /\ phase = "listening"
  /\ turn_log = <<>>
  /\ turn_base = 0
  /\ init_result = "none"
  /\ entry = EntryStart

\* A caller that has not called safe_generate.
IdleCaller == [pc |-> "idle", attempts |-> 0, backoff |-> 0, delay |-> 0,
               permit |-> FALSE, error |-> None, raised |-> None]

\* The value None where a configuration or a row is expected.
NoneCfg == [provider |-> None, model |-> None, temperature |-> None]

\* The empty dict {} where a configuration is expected.
EmptyCfg == [provider |-> "{}", model |-> "{}", temperature |-> "{}"]

\* self._llm = None: no plugin is installed.
NoLLM == [ctor |-> None, model |-> None, temperature |-> None]

\* DynamicLLM.__init__: no configuration and no plugin yet.
NewDynamicLLM == [current_cfg |-> EmptyCfg, llm |-> NoLLM,
                  fetched |-> EmptyCfg, found |-> FALSE, refreshed |-> FALSE,
                  error |-> None]

\* No send_email call has been made.
NoSend == [called |-> FALSE, valid |-> FALSE, delivered |-> FALSE,
           log_id |-> 0, rows_created |-> 0, connections |-> 0]

InitServiceVars ==
  /\ uploads = {}
  /\ accepted = {}
  /\ email_logs = <<>>
  /\ smtp_connections = 0
  /\ last_send = NoSend
  /\ sem = [size |-> 0, value |-> 0]
  /\ callers = [c \in 1..MaxCallers |-> IdleCaller]
  /\ llm_configs = NoneCfg
  /\ dynamic_llm = NewDynamicLLM

InitHistoryVars == failed_writes = {}

Init == InitStoreVars /\ InitToolVars /\ InitTurnVars /\ InitSessionVars
          /\ InitServiceVars /\ InitHistoryVars

Next == AddMessage \/ InitializeSession \/ RunStoreUserEmail \/ RunUpdateOpti
          \/ RunUpdateRoot \/ RunUpdateTables

Spec == Init /\ [][Next]_vars

\* ------------------------------------------------------- invoking a tool
\* The agent_state attribute after a tool ran: set_agent_state stores the new
\* state before anything can raise; the root request tools go through it.
AgentStateAfter(v, tool, env, state) ==
  IF tool = "set_agent_state" THEN "state"
  ELSE IF v = "root" /\ tool = "request_email" /\ env.call = "ok"
    THEN "email_requested"
  ELSE IF v = "root" /\ tool = "request_resume" /\ env.call = "ok"
    THEN "resume_requested"
  ELSE state

invoke_tool(tool, query, env) ==
  LET r == CallTool(variant, tool, query, session_emails, user_emails, env) IN
  /\ add_messages(r.logged)
  /\ last_tool' = [tool |-> tool, returned |-> r.returned, raised |-> r.raised,
                   logged |-> Len(r.logged)]
  /\ tool_calls_made' = tool_calls_made + 1
  /\ agent_state' = AgentStateAfter(variant, tool, env, agent_state)
  /\ session_emails' =
       IF tool = "get_user_email"
         THEN CacheAfterLookup(session_emails, user_emails, env)
         ELSE session_emails
  /\ UNCHANGED <<variant, participant_id, emails, conversation_histories,
                 user_emails, inits>>

InvokeTool ==
  /\ tool_calls_made < MaxToolCalls
  /\ \E tool \in RegisteredTools(variant) :
       \E query \in Queries, env \in EnvFor(tool) : invoke_tool(tool, query, env)
  /\ UNCHANGED <<turnVars, sessionVars, serviceVars, historyVars>>

\* A record the table user_emails may already hold for the session.
StoredEmail ==
  [session_id |-> RoomName, participant_id |-> RoomName,
   email |-> <<"a", "@", "b">>]

\* The tools start on a fresh store; the table user_emails may already hold
\* the session's email.
InitTools ==
  /\ variant \in Variants
  /\ participant_id = None
  /\ messages = <<>>
  /\ message_count = 0
  /\ emails = {}
  /\ ready = <<>>
  /\ conversation_histories = NoRow
  /\ user_emails \in {<<>>, <<StoredEmail>>}
  /\ passed = <<>>
  /\ extracted = <<>>
  /\ inits = 0
  /\ InitToolVars /\ InitTurnVars /\ InitSessionVars /\ InitServiceVars
  /\ InitHistoryVars

NextTools == InvokeTool \/ RunUpdateOpti \/ RunUpdateRoot \/ RunUpdateTables

SpecTools == InitTools /\ [][NextTools]_vars

\* ------------------------------------------------- PrepzoAgent.llm_node
\* The trigger phrase llm_node looks for, and the chunk texts of the model.
Sentinel ==
  <<"S", "Y", "S", "T", "E", "M", "_", "T", "R", "I", "G", "G", "E", "R",
    "_", "R", "E", "S", "U", "M", "E", "_", "R", "E", "Q", "U", "E", "S",
    "T">>

SentinelHead ==
  <<"S", "Y", "S", "T", "E", "M", "_", "T", "R", "I", "G", "G", "E", "R",
    "_">>

SentinelTail ==
  <<"R", "E", "S", "U", "M", "E", "_", "R", "E", "Q", "U", "E", "S", "T">>

Str_I_will ==
  <<"I", " ", "w", "i", "l", "l", " ">>

Str_now ==
  <<"n", "o", "w", " ">>

\* An LLM chunk: the text of delta.content (empty when there is no delta or no
\* content) and whether delta.tool_calls is populated.
Chunk(content, tool_calls) == [content |-> content, tool_calls |-> tool_calls]

Chunks ==
  {Chunk(Str_I_will, FALSE), Chunk(Str_now, FALSE), Chunk(Sentinel, FALSE),
   Chunk(SentinelHead, FALSE), Chunk(SentinelTail, FALSE),
   Chunk(<<>>, TRUE), Chunk(<<>>, FALSE)}

\* The role under which llm_node logs a chunk that carries tool calls.
ToolCallRole(v) == IF v = "opti" THEN "llm_tool_call_generated" ELSE "tool_call"

ResumeAnalysisText == "RESUME ANALYSIS <analysis>"

\* Mutant of TriggerDetected: the phrase is looked for in the current chunk
\* only, not in the accumulated buffer.
TriggerInChunkOnly(buf, chunk) == Contains(chunk.content, Sentinel)

\* llm_node (opti): the trigger phrase is in the stripped buffer.
TriggerDetected(buf, chunk) == Contains(Strip(buf, Whitespace), Sentinel)

\* Mutant of Yields: the chunk that completes the trigger phrase is still
\* yielded, suppression starting with the next chunk.
YieldsUntilNextChunk(suppressed_before, suppressed_now) == ~suppressed_before

\* llm_node yields the chunk unless suppression is active after handling it.
Yields(suppressed_before, suppressed_now) == ~suppressed_now

\* Mutant of ForwardChunk: a chunk that carries tool calls is not yielded.
ForwardChunkTextOnly(out, chunk) ==
  IF chunk.tool_calls THEN out ELSE Append(out, chunk)

\* `yield chunk`.
ForwardChunk(out, chunk) == Append(out, chunk)

\* llm_node starts: the locals are fresh. The root variant first runs
\* ensure_resume_analysis_loaded, which may copy a resume analysis from the
\* backup file into the store.
start_turn(backup) ==
  /\ turn_pc # "streaming"
  /\ turns < MaxTurns
  /\ turns' = turns + 1
  /\ turn_pc' = "streaming"
  /\ buffer' = <<>>
  /\ suppress_output_this_turn' = FALSE
  /\ received' = <<>>
  /\ forwarded' = <<>>
  /\ manual_calls' = 0
  /\ says' = 0
  /\ trigger_result' = None
  /\ triggered_before' = (triggered_before \/ suppress_output_this_turn)
  /\ IF variant = "root" /\ ~resume_analysis_loaded /\ backup = "analysis"
       THEN /\ resume_analysis_loaded' = TRUE
            /\ add_message([role |-> "system", content |-> ResumeAnalysisText])
       ELSE /\ UNCHANGED resume_analysis_loaded
            /\ add_messages(<<>>)
  /\ UNCHANGED <<variant, participant_id, emails, conversation_histories,
                 user_emails, inits, toolVars>>

TriggerMessage ==
  [role |-> "system_tool_trigger",
   content |-> "Manually triggered request_resume based on LLM phrase."]

\* Mutant of TriggerLog: the system_tool_trigger message is appended whether
\* or not request_resume raised.
TriggerLogAlways(tool) == tool.logged \o <<TriggerMessage>>

\* What the try block of the trigger appends to the store: the statement after
\* the call of request_resume is skipped when the call raised.
TriggerLog(tool) ==
  IF tool.raised = None THEN tool.logged \o <<TriggerMessage>> ELSE tool.logged

\* One iteration of `async for chunk in llm_stream` (opti): buffer, detect the
\* trigger, call request_resume and session.say, log tool calls, yield.
llm_chunk_opti(chunk, env) ==
  LET buffers == chunk.content # <<>> /\ ~suppress_output_this_turn
      new_buffer == IF buffers THEN buffer \o chunk.content ELSE buffer
      trigger == buffers /\ TriggerDetected(new_buffer, chunk)
      tool == request_resume_opti(env)
      trigger_log == IF trigger THEN TriggerLog(tool) ELSE <<>>
      tool_call_log ==
        IF chunk.tool_calls
          THEN <<[role |-> ToolCallRole("opti"), content |-> "<tool_calls>"]>>
          ELSE <<>>
      suppress == suppress_output_this_turn \/ trigger
  IN
  /\ buffer' = new_buffer
  /\ suppress_output_this_turn' = suppress
  /\ manual_calls' = IF trigger THEN manual_calls + 1 ELSE manual_calls
  /\ says' = IF trigger /\ tool.raised = None THEN says + 1 ELSE says
  /\ trigger_result' =
       IF ~trigger THEN trigger_result
       ELSE IF tool.raised = None THEN "returned" ELSE tool.raised
  /\ add_messages(trigger_log \o tool_call_log)
  /\ forwarded' = IF Yields(suppress_output_this_turn, suppress)
                    THEN ForwardChunk(forwarded, chunk) ELSE forwarded

\* One iteration of the loop of src/agent.py: log tool calls, yield.
llm_chunk_root(chunk) ==
  /\ UNCHANGED <<buffer, suppress_output_this_turn, manual_calls, says,
                 trigger_result>>
  /\ add_messages(IF chunk.tool_calls
                    THEN <<[role |-> ToolCallRole("root"),
                            content |-> "<tool_calls>"]>>
                    ELSE <<>>)
  /\ forwarded' = ForwardChunk(forwarded, chunk)

llm_chunk(chunk, env) ==
  /\ turn_pc = "streaming"
  /\ Len(received) < MaxChunks
  /\ received' = Append(received, chunk)
  /\ IF variant = "opti" THEN llm_chunk_opti(chunk, env) ELSE llm_chunk_root(chunk)
  /\ UNCHANGED <<turn_pc, turns, triggered_before, resume_analysis_loaded>>
  /\ UNCHANGED <<variant, participant_id, emails, conversation_histories,
                 user_emails, inits, toolVars>>

\* The stream ends. The opti variant then reads `chunk`, which is unbound when
\* the stream delivered nothing.
end_turn ==
  /\ turn_pc = "streaming"
  /\ turn_pc' = IF variant = "opti" /\ received = <<>> THEN "raised" ELSE "complete"
  /\ UNCHANGED <<buffer, suppress_output_this_turn, received, forwarded,
                 manual_calls, says, trigger_result, turns, triggered_before,
                 resume_analysis_loaded>>
  /\ UNCHANGED <<storeVars, toolVars>>

\* The stream raises: the exception leaves llm_node.
stream_error ==
  /\ turn_pc = "streaming"
  /\ turn_pc' = "raised"
  /\ UNCHANGED <<buffer, suppress_output_this_turn, received, forwarded,
                 manual_calls, says, trigger_result, turns, triggered_before,
                 resume_analysis_loaded>>
  /\ UNCHANGED <<storeVars, toolVars>>

\* Outcomes of the calls llm_node makes when the trigger is detected.
TriggerEnvs ==
  {[DefaultEnv EXCEPT !.context = c, !.publish = p] :
     c \in Outcome, p \in Outcome}

StartTurn ==
  /\ \E backup \in {"none", "analysis"} : start_turn(backup)
  /\ UNCHANGED <<sessionVars, serviceVars, historyVars>>

LlmChunk ==
  /\ \E chunk \in Chunks, env \in TriggerEnvs : llm_chunk(chunk, env)
  /\ UNCHANGED <<sessionVars, serviceVars, historyVars>>

EndTurn == end_turn /\ UNCHANGED <<sessionVars, serviceVars, historyVars>>

StreamError == stream_error /\ UNCHANGED <<sessionVars, serviceVars, historyVars>>

NextTurn == StartTurn \/ LlmChunk \/ EndTurn \/ StreamError

SpecTurn == Init /\ [][NextTurn]_vars

\* ------------------------------------------------- the session's turn loop
\* on_conversation_item_added: user and assistant items with text are logged;
\* the opti handler skips assistant items that carry tool calls.
on_conversation_item_added(item) ==
  LET role_str ==
        IF item.role = "user" THEN "user"
        ELSE IF item.role = "assistant"
               /\ ~(variant = "opti" /\ item.tool_calls) THEN "assistant"
        ELSE ""
  IN IF role_str # "" /\ item.text_content # <<>>
       THEN add_message([role |-> role_str, content |-> item.text_content])
       ELSE add_messages(<<>>)

Item(role, text_content, tool_calls) ==
  [role |-> role, text_content |-> text_content, tool_calls |-> tool_calls]

\* The user's utterance is committed to the conversation.
OnUserItem ==
  /\ phase = "listening"
  /\ turns < MaxTurns
  /\ \E text \in {Str_star, <<>>} :
       /\ on_conversation_item_added(Item("user", text, FALSE))
       /\ turn_log' = <<IF text # <<>> THEN "user" ELSE "user_without_text">>
  /\ phase' = "generating"
  /\ turn_base' = Len(messages)
  /\ UNCHANGED <<variant, participant_id, emails, conversation_histories,
                 user_emails, inits, toolVars, turnVars, init_result, entry, serviceVars, historyVars>>

\* The framework calls llm_node for the next generation of the turn.
SessionStartTurn ==
  /\ phase = "generating"
  /\ start_turn("none")
  /\ UNCHANGED <<sessionVars, serviceVars, historyVars>>

\* Chunks of a generation that does not use the trigger phrase.
SessionChunks == {Chunk(Str_I_will, FALSE), Chunk(<<>>, TRUE)}

SessionChunk ==
  /\ phase = "generating"
  /\ \E chunk \in SessionChunks :
       /\ llm_chunk(chunk, DefaultEnv)
       /\ turn_log' = IF chunk.tool_calls THEN Append(turn_log, "tool_calls")
                      ELSE turn_log
  /\ UNCHANGED <<phase, turn_base, init_result, entry, serviceVars, historyVars>>

HasToolCalls(chunks) == \E i \in 1..Len(chunks) : chunks[i].tool_calls

\* The generation, of at least one chunk, ends: a generation that asked for a
\* tool is followed by the tool's execution, any other by the assistant's reply.
SessionEndTurn ==
  /\ phase = "generating"
  /\ received # <<>>
  /\ end_turn
  /\ phase' = IF HasToolCalls(received) THEN "tool" ELSE "replying"
  /\ UNCHANGED <<turn_log, turn_base, init_result, entry, serviceVars, historyVars>>

\* The framework executes the tool the model asked for.
SessionTool ==
  /\ phase = "tool"
  /\ tool_calls_made < MaxToolCalls
  /\ \E tool \in RegisteredTools(variant) :
       /\ \E query \in Queries, env \in EnvFor(tool) : invoke_tool(tool, query, env)
       /\ turn_log' = Append(turn_log, tool)
  /\ phase' = "generating"
  /\ UNCHANGED <<turnVars, turn_base, init_result, entry, serviceVars, historyVars>>

\* The assistant's reply is committed to the conversation.
OnAssistantItem ==
  /\ phase = "replying"
  /\ \E text \in {Str_hi, <<>>}, tool_calls \in BOOLEAN :
       /\ on_conversation_item_added(Item("assistant", text, tool_calls))
       /\ turn_log' = Append(turn_log,
                        IF text # <<>> /\ ~tool_calls THEN "assistant"
                        ELSE "assistant_other")
  /\ phase' = "listening"
  /\ UNCHANGED <<variant, participant_id, emails, conversation_histories,
                 user_emails, inits, toolVars, turnVars, turn_base,
                 init_result, entry, serviceVars, historyVars>>

NextSession == OnUserItem \/ SessionStartTurn \/ SessionChunk \/ SessionEndTurn
                 \/ SessionTool \/ OnAssistantItem

SpecSession == Init /\ [][NextSession]_vars

\* ConversationManager.get_messages: the in-memory list itself.
get_messages == messages

\* ------------------------------------- specification of email extraction
Alphabet == {"a", "@", ".", " "}

AllStrings(n) == UNION {[1..k -> Alphabet] : k \in 0..n}

ExtractRoles == {"user", "assistant", "tool_result"}

\* One add_message call with any role and any content up to MaxContentLen.
AddMessageAny ==
  /\ passed = <<>>
  /\ \E role \in ExtractRoles, content \in AllStrings(MaxContentLen) :
       add_message([role |-> role, content |-> content])
  /\ UNCHANGED <<variant, participant_id, emails, conversation_histories,
                 user_emails, inits>>
  /\ UNCHANGED <<toolVars, turnVars, sessionVars, serviceVars, historyVars>>

NextExtract == AddMessageAny \/ RunStoreUserEmail

SpecExtract == Init /\ [][NextExtract]_vars

\* ------------------------------------------------------------------ claims

\* C1: get_messages() returns exactly the messages passed to add_message, in
\* call order; no operation of the store (add_message, initialize_session, a
\* failed or completed durable write) removes, reorders or edits one.
C1_MessagesInCallOrder == get_messages = passed

C1_Witness ==
  /\ Len(passed) >= 2
  /\ inits >= 1
  /\ ready = <<>>
  /\ get_messages = passed

\* C2: in every reachable state the in-memory message_count equals the length
\* of the in-memory message list.
C2_CountEqualsLength == message_count = Len(messages)

C2_Witness ==
  /\ inits >= 1
  /\ Len(messages) >= 2
  /\ message_count = Len(messages)

\* The whitespace-delimited tokens of s, as pairs of first and last index.
TokenSpans(s) ==
  {span \in (1..Len(s)) \X (1..Len(s)) :
     /\ span[1] <= span[2]
     /\ \A k \in span[1]..span[2] : s[k] \notin Whitespace
     /\ (span[1] = 1 \/ s[span[1] - 1] \in Whitespace)
     /\ (span[2] = Len(s) \/ s[span[2] + 1] \in Whitespace)}

AtSpans(s) ==
  {span \in TokenSpans(s) : \E k \in span[1]..span[2] : s[k] = "@"}

\* The k-th '@' token of s, from the left.
AtToken(s, k) ==
  LET span == CHOOSE sp \in AtSpans(s) :
                Cardinality({o \in AtSpans(s) : o[1] < sp[1]}) = k - 1
  IN SubSeq(s, span[1], span[2])

\* e is w without its leading and trailing characters of StripChars.
StrippedBothEnds(e, w) ==
  /\ \E i \in 1..(Len(w) + 1), j \in 0..Len(w) :
       /\ e = SubSeq(w, i, j)
       /\ \A k \in 1..(i - 1) : w[k] \in StripChars
       /\ \A k \in (j + 1)..Len(w) : w[k] \in StripChars
  /\ e # <<>> => (e[1] \notin StripChars /\ e[Len(e)] \notin StripChars)

\* e is w without its trailing characters of StripChars, the head untouched.
StrippedTrailing(e, w) ==
  /\ \E j \in 0..Len(w) :
       /\ e = SubSeq(w, 1, j)
       /\ \A k \in (j + 1)..Len(w) : w[k] \in StripChars
  /\ e # <<>> => e[Len(e)] \notin StripChars

LastPassed == passed[Len(passed)]

\* C9 as stated: every email extracted from a user message is its '@' token
\* with the trailing punctuation stripped; other roles extract nothing.
C9_TrailingStripped ==
  passed # <<>> =>
    IF LastPassed.role = "user"
      THEN /\ Len(extracted) = Cardinality(AtSpans(LastPassed.content))
           /\ \A k \in 1..Len(extracted) :
                StrippedTrailing(extracted[k], AtToken(LastPassed.content, k))
      ELSE extracted = <<>>

\* C9 amended: every email extracted from a user message is its '@' token
\* with the characters . , ! ? stripped from both ends, one email per '@'
\* token in token order; a message whose role is not user extracts nothing.
C9_BothEndsStripped ==
  passed # <<>> =>
    IF LastPassed.role = "user"
      THEN /\ Len(extracted) = Cardinality(AtSpans(LastPassed.content))
           /\ \A k \in 1..Len(extracted) :
                StrippedBothEnds(extracted[k], AtToken(LastPassed.content, k))
      ELSE extracted = <<>>

C9_Witness ==
  /\ passed # <<>>
  /\ LastPassed.role = "user"
  /\ LastPassed.content = <<".", "a", "@", ".">>
  /\ extracted = << <<"a", "@">> >>

\* C10: at most one contact record is stored in user_emails per distinct
\* extracted email, whatever the order of messages and background tasks.
C10_OneRecordPerEmail ==
  \A i, j \in 1..Len(user_emails) :
    user_emails[i].email = user_emails[j].email => i = j

\* Two user messages carried the same email, every task has run, and the email
\* is on record.
C10_Witness ==
  /\ ready = <<>>
  /\ \E i, j \in 1..Len(passed) :
       /\ i < j
       /\ ExtractEmails(passed[i]) # <<>>
       /\ ExtractEmails(passed[j]) # <<>>
       /\ ExtractEmails(passed[i])[1] = ExtractEmails(passed[j])[1]
       /\ \E r \in 1..Len(user_emails) :
            user_emails[r].email = ExtractEmails(passed[i])[1]

\* ---------------------------------------------------------------- claims C3-C8
\* The text a sequence of chunks streams.
RECURSIVE TextOf(_)
TextOf(chunks) ==
  IF chunks = <<>> THEN <<>>
  ELSE TextOf(SubSeq(chunks, 1, Len(chunks) - 1)) \o chunks[Len(chunks)].content

\* The streamed text of the current turn contains the sentinel phrase.
StreamHasSentinel == Contains(TextOf(received), Sentinel)

\* The position of the chunk that completes the first sentinel phrase.
CompletingChunk ==
  CHOOSE k \in 1..Len(received) :
    /\ Contains(TextOf(SubSeq(received, 1, k)), Sentinel)
    /\ \A j \in 1..(k - 1) : ~Contains(TextOf(SubSeq(received, 1, j)), Sentinel)

\* C3 (as stated): a turn of the opti interceptor whose streamed text contains
\* the sentinel phrase forwards zero chunks, including those received before
\* the sentinel was complete.
C3_FullSuppression ==
  (variant = "opti" /\ StreamHasSentinel) => forwarded = <<>>

\* C3 (amended): a turn of the opti interceptor whose streamed text contains
\* the sentinel phrase forwards exactly the chunks received before the chunk
\* that completes the phrase, and no chunk from that one on.
C3_SuppressedFromSentinel ==
  (variant = "opti" /\ StreamHasSentinel) =>
    forwarded = SubSeq(received, 1, CompletingChunk - 1)

\* C3 witness: "I will ", "now ", sentinel: the first two chunks went downstream.
C3_Witness ==
  /\ variant = "opti"
  /\ received = <<Chunk(Str_I_will, FALSE), Chunk(Str_now, FALSE),
                  Chunk(Sentinel, FALSE)>>
  /\ forwarded = <<Chunk(Str_I_will, FALSE), Chunk(Str_now, FALSE)>>
  /\ manual_calls = 1

\* C4: a turn whose streamed text never contains the sentinel phrase forwards
\* every chunk exactly once, in the order received, and invokes no tool; also
\* when an earlier turn was triggered.
C4_PassThrough ==
  (turns > 0 /\ ~StreamHasSentinel) =>
    /\ forwarded = received
    /\ manual_calls = 0
    /\ last_tool = NoTool

\* C4 witness: a completed turn without the phrase, after a triggered turn,
\* with a chunk that carries only tool calls.
C4_Witness ==
  /\ triggered_before
  /\ turn_pc = "complete"
  /\ ~StreamHasSentinel
  /\ Len(received) >= 2
  /\ \E i \in 1..Len(received) : received[i].tool_calls /\ received[i].content = <<>>
  /\ forwarded = received

\* C5: search_knowledge_base returns a string without raising for every
\* outcome of the embedding, index-stats and index-query calls, and the last
\* message of the store is a tool_result whose content is the returned string.
C5_SearchContained ==
  last_tool.tool = "search_knowledge_base" =>
    /\ last_tool.raised = None
    /\ last_tool.returned.type = "str"
    /\ messages # <<>>
    /\ messages[Len(messages)] =
         [role |-> "tool_result", content |-> last_tool.returned.text]

\* C5 witness: the index call raised and the apology was returned and logged.
C5_Witness ==
  /\ last_tool.tool = "search_knowledge_base"
  /\ last_tool.returned = PyStr(SearchErrorText)
  /\ messages[Len(messages)] = [role |-> "tool_result", content |-> SearchErrorText]

\* C6 (as stated): every tool of the registry returns a string on every
\* invocation and raises no exception to its caller.
C6_ToolsNeverRaise ==
  last_tool.tool # None =>
    /\ last_tool.raised = None
    /\ last_tool.returned.type = "str"

\* C7 (as stated): every tool invocation that completes has appended at least
\* one tool_result message by the time it returns.
C7_ToolResultAppended ==
  (last_tool.tool # None /\ last_tool.raised = None) =>
    /\ last_tool.logged >= 1
    /\ \E i \in 1..Len(messages) : messages[i].role = "tool_result"

\* The roles of the entries the current user turn added to the store.
RECURSIVE RolesOf(_)
RolesOf(msgs) ==
  IF msgs = <<>> THEN <<>>
  ELSE RolesOf(SubSeq(msgs, 1, Len(msgs) - 1)) \o <<msgs[Len(msgs)].role>>

TurnRoles == RolesOf(SubSeq(get_messages, turn_base + 1, Len(get_messages)))

\* The turn that just ended: user utterance, one knowledge-base search asked
\* for by the model, assistant reply.
OneToolTurn ==
  /\ phase = "listening"
  /\ turn_log = <<"user", "tool_calls", "search_knowledge_base", "assistant">>

\* C8 (as stated): after a turn with one knowledge-base search the store holds
\* user, tool_result (optionally preceded by one tool_call), assistant, and
\* no other entry.
C8_CausalOrder ==
  OneToolTurn =>
    TurnRoles \in {<<"user", "tool_result", "assistant">>,
                   <<"user", "tool_call", "tool_result", "assistant">>}

\* ------------------------------------- specification of the email lookup
Str_other == <<"c", "@", "d">>

\* User utterances with one email address or none.
EmailMessages == [role : {"user"}, content : {Str_hi, Str_mail, Str_other}]

AddEmailMessage ==
  /\ Len(passed) < MaxMessages
  /\ \E message \in EmailMessages : add_message(message)
  /\ UNCHANGED <<variant, participant_id, emails, conversation_histories,
                 user_emails, inits>>
  /\ UNCHANGED <<toolVars, turnVars, sessionVars, serviceVars, historyVars>>

\* The model calls get_user_email.
LookupEmail ==
  /\ tool_calls_made < MaxToolCalls
  /\ \E env \in EnvFor("get_user_email") :
       invoke_tool("get_user_email", Str_star, env)
  /\ UNCHANGED <<turnVars, sessionVars, serviceVars, historyVars>>

NextEmail == AddEmailMessage \/ LookupEmail \/ RunStoreUserEmail
               \/ RunUpdateOpti \/ RunUpdateRoot \/ RunUpdateTables

SpecEmail == Init /\ [][NextEmail]_vars

\* ------------------------------------------------------------- claims C11-C20
\* No store_user_email task is waiting to run.
NoStorePending ==
  \A i \in 1..Len(ready) : ready[i].kind # "store_user_email"

\* The address of the last user message that carried one is on record.
LastEmailStored ==
  /\ HistoryEmail(messages) # None
  /\ HistoryEmail(messages) \in emails
  /\ NoStorePending

\* C11 (as stated): once a user message with an email has been added and
\* stored, every later get_user_email lookup that reaches the cache or the
\* table returns that address.
C11_LookupReturnsStoredEmail ==
  [][(/\ tool_calls_made' = tool_calls_made + 1
      /\ last_tool'.tool = "get_user_email"
      /\ LastEmailStored
      /\ session_emails' # None)
     => last_tool'.returned = PyStr(HistoryEmail(messages))]_vars

\* The row as a successful initialize_session for `participant` leaves it.
FreshRow(row, participant) ==
  /\ row.exists
  /\ row.conversation = <<>>
  /\ row.raw_conversation = <<>>
  /\ row.message_count = 0
  /\ row.participant_id = participant

\* C12: an initialize_session call changes no in-memory message, leaves the
\* row alone (storage error) or overwrites it with an empty array and count 0,
\* and changes nothing at all when the session was already initialised.
C12_InitIdempotent ==
  [][inits' = inits + 1 =>
       /\ messages' = messages
       /\ message_count' = message_count
       /\ \/ conversation_histories' = conversation_histories
          \/ FreshRow(conversation_histories', participant_id')
       /\ (participant_id = participant_id'
           /\ FreshRow(conversation_histories, participant_id'))
          => /\ conversation_histories' = conversation_histories
             /\ <<emails, ready, user_emails>>' = <<emails, ready, user_emails>>]_vars

\* C12 witness: initialised twice after messages were written to the row; the
\* row is empty again and the in-memory list is intact.
C12_Witness ==
  /\ inits = 2
  /\ ready = <<>>
  /\ messages # <<>>
  /\ message_count = Len(messages)
  /\ FreshRow(conversation_histories, participant_id)
  /\ conversation_histories.user_email # None

\* The add_message calls whose durable write has not completed yet.
PendingWrites(queue) ==
  {queue[i].call : i \in {j \in 1..Len(queue) :
      queue[j].kind \in {"update_conversation_history", "update_tables"}}}

\* A task runs and the write of add_message call number `b` completes while
\* the write of an earlier call is still pending.
LaterWriteCompletesFirst ==
  /\ RunTask
  /\ \E b \in PendingWrites(ready) :
       /\ b \notin PendingWrites(ready')
       /\ \E a \in PendingWrites(ready') : a < b

\* C13 (as stated): completion order is not guaranteed to match issue order:
\* whenever the writes of two add_message calls are pending, the later one
\* can complete before the earlier one.
C13_LaterWriteCanCompleteFirst ==
  Cardinality(PendingWrites(ready)) >= 2 => ENABLED LaterWriteCompletesFirst

IsPrefix(s, t) == Len(s) <= Len(t) /\ SubSeq(t, 1, Len(s)) = s

\* C13 (amended): writes complete in the order they were issued, and a
\* completed write never replaces the row's array by a shorter or older one.
C13_WritesCompleteInIssueOrder ==
  [][inits' = inits =>
       /\ \A b \in PendingWrites(ready) \ PendingWrites(ready') :
            \A a \in PendingWrites(ready') : b < a
       /\ (conversation_histories.exists
           /\ conversation_histories' # conversation_histories)
          => /\ IsPrefix(conversation_histories.conversation,
                         conversation_histories'.conversation)
             /\ conversation_histories'.message_count
                  >= conversation_histories.message_count]_vars

\* C13 witness: one write has completed and the writes of two later
\* add_message calls are pending together.
C13_Witness ==
  /\ Cardinality(PendingWrites(ready)) >= 2
  /\ conversation_histories.exists
  /\ conversation_histories.message_count >= 1
  /\ IsPrefix(conversation_histories.conversation, messages)
  /\ inits = 0

\* A step in which the task at the head of the ready queue, a durable write,
\* runs.
WriteStep ==
  /\ ready # <<>>
  /\ Head(ready).kind \in {"update_conversation_history", "update_tables"}
  /\ ready' # ready
  /\ passed' = passed
  /\ inits' = inits

\* C14: a durable write that fails (the row stays as it was) leaves the
\* in-memory list and message_count as they were, is not put back on the
\* queue, and creates no new work; no write step touches the in-memory list.
C14_WriteErrorSwallowed ==
  [][WriteStep =>
       /\ messages' = messages
       /\ message_count' = message_count
       /\ PendingWrites(ready') \subseteq PendingWrites(ready)
       /\ Len(ready') <= Len(ready)
       /\ (conversation_histories' = conversation_histories
           /\ (variant = "opti" \/ Head(ready).kind = "update_tables"))
          => ready' = Tail(ready)]_vars

\* C14 witness: every write failed; the messages are in memory only.
C14_Witness ==
  /\ ready = <<>>
  /\ Len(messages) >= 2
  /\ message_count = Len(messages)
  /\ messages = passed
  /\ ~conversation_histories.exists

\* C15: initialize_session returns normally whether or not the storage call
\* succeeded, and add_message calls after it still append to the list.
C15_InitNeverRaises ==
  [][/\ inits' = inits + 1 => init_result' = "returned"
     /\ (inits > 0 /\ Len(passed') = Len(passed) + 1)
        => /\ messages' = Append(messages, passed'[Len(passed')])
           /\ message_count' = message_count + 1]_vars

\* C15 witness: the session was initialised, the storage call failed (there
\* is no row), and the in-memory list holds messages.
C15_Witness ==
  /\ inits = 1
  /\ init_result = "returned"
  /\ participant_id = RoomName
  /\ ~conversation_histories.exists
  /\ messages # <<>>
  /\ messages = passed

\* C16 (as stated): get_user_email returns the stored email when there is one
\* (cached or on record) and the empty string in every other case.
C16_EmailOrEmptyString ==
  last_tool.tool = "get_user_email" =>
    /\ last_tool.raised = None
    /\ last_tool.returned.type = "str"
    /\ IF session_emails # None
         THEN last_tool.returned.text = session_emails
         ELSE last_tool.returned = PyStr("")

\* Every row written by a durable write has a count equal to the length of
\* the array in the same row.
RowCountMatches(row) ==
  row.exists => row.message_count = Len(row.conversation)

\* C19 (as stated): every row that a write puts into conversation_histories
\* has message_count equal to the number of entries of its conversation array.
C19_RowCountEqualsLength == RowCountMatches(conversation_histories)

\* C20: in the opti interceptor request_resume is called exactly once in a turn
\* whose streamed text contains the sentinel phrase, whole or split across
\* chunks and however often it recurs, and never in any other turn.
C20_TriggerAtMostOnce ==
  variant = "opti" =>
    /\ manual_calls <= 1
    /\ manual_calls = 1 <=> StreamHasSentinel
    /\ suppress_output_this_turn <=> StreamHasSentinel

\* C20 witness: the phrase arrived split over two chunks and then once more
\* whole; request_resume was called once.
C20_Witness ==
  /\ variant = "opti"
  /\ received = <<Chunk(SentinelHead, FALSE), Chunk(SentinelTail, FALSE),
                  Chunk(Sentinel, FALSE)>>
  /\ manual_calls = 1
  /\ turn_pc = "complete"

\* ------------------------------------------ specification of the entrypoint
\* The plugins the opti entrypoint loads from the secret store.
Plugins == {"tts", "stt", "llm"}

\* Keyword arguments the entrypoint passes to PrepzoAgent.
AgentCallKwargs(v) ==
  IF v = "opti" THEN {"room_name", "conversation_manager", "instructions"}
  ELSE {"ctx", "room_name", "conversation_manager"}

\* Parameters of PrepzoAgent.__init__; none has a default.
AgentInitParams(v) ==
  IF v = "opti" THEN {"room_name", "conversation_manager"}
  ELSE {"ctx", "room_name", "conversation_manager"}

\* Keyword arguments the root PrepzoAgent.__init__ passes to AssistantFnc.
AssistantFncCallKwargs == {"ctx", "room_name"}

\* Parameters of AssistantFnc.__init__; none has a default.
AssistantFncInitParams == {"room_name", "conversation_manager"}

\* A keyword call binds when every keyword names a parameter and every
\* parameter without a default is given.
Binds(kwargs, params) == kwargs = params

\* PrepzoAgent(...) as the entrypoint calls it: None, or the exception raised.
PrepzoAgentInit(v) ==
  IF ~Binds(AgentCallKwargs(v), AgentInitParams(v)) THEN "TypeError"
  ELSE IF v = "root" /\ ~Binds(AssistantFncCallKwargs, AssistantFncInitParams)
    THEN "TypeError"
  ELSE None

\* The methods of the opti ConversationManager.
ConversationManagerMethods ==
  {"initialize_session", "store_session", "update_conversation_history",
   "store_user_email", "add_message", "create_message_data"}

\* _shutdown_hook: `bound` is whether conversation_manager has been assigned
\* in the entrypoint. The result is how the hook ends and whether it flushed.
ShutdownHook(bound) ==
  IF ~bound THEN [ended |-> "returned", flushed |-> FALSE]
  ELSE IF "flush_and_close" \in ConversationManagerMethods
    THEN [ended |-> "returned", flushed |-> TRUE]
  ELSE [ended |-> "AttributeError", flushed |-> FALSE]

\* A step of the entrypoint that touches nothing but its own position.
EntryStep(next) ==
  /\ entry' = next
  /\ UNCHANGED <<storeVars, toolVars, turnVars, phase, turn_log, turn_base,
                 init_result, serviceVars, historyVars>>

\* ctx.add_shutdown_callback(_shutdown_hook): the opti entrypoint only.
EntryRegisterHook ==
  /\ variant = "opti"
  /\ entry.shutdown = "no"
  /\ entry.pc = "start"
  /\ EntryStep([entry EXCEPT !.pc = "plugins", !.hook_registered = TRUE])

\* Loading VAD and the tts, stt and llm plugins. The opti entrypoint replaces a
\* plugin whose secret could not be loaded by a fallback; the root entrypoint
\* constructs them in line and any failure raises.
EntryLoadPlugins ==
  /\ entry.shutdown = "no"
  /\ entry.pc = (IF variant = "opti" THEN "plugins" ELSE "start")
  /\ \E vad \in BOOLEAN, failed \in SUBSET Plugins :
       EntryStep([entry EXCEPT
         !.pc = IF vad /\ (variant = "opti" \/ failed = {})
                  THEN "connect" ELSE "raised",
         !.fallbacks = IF vad /\ variant = "opti" THEN failed ELSE {},
         !.externals_ok = vad /\ failed = {}])

\* await ctx.connect().
EntryConnect ==
  /\ entry.shutdown = "no"
  /\ entry.pc = "connect"
  /\ \E ok \in BOOLEAN :
       EntryStep([entry EXCEPT
         !.pc = IF ok THEN "store" ELSE "raised",
         !.externals_ok = entry.externals_ok /\ ok])

\* conversation_manager = ConversationManager(ctx.room.name). The opti
\* constructor creates the storage client and re-raises its failure; the root
\* module created its client when it was imported.
EntryCreateStore ==
  /\ entry.shutdown = "no"
  /\ entry.pc = "store"
  /\ \E ok \in (IF variant = "opti" THEN BOOLEAN ELSE {TRUE}) :
       EntryStep([entry EXCEPT
         !.pc = IF ok THEN "init" ELSE "raised",
         !.store_created = ok,
         !.log = IF ok THEN Append(entry.log, "store") ELSE entry.log,
         !.externals_ok = entry.externals_ok /\ ok])

\* await conversation_manager.initialize_session(ctx.room.name).
EntryInitializeSession ==
  /\ entry.shutdown = "no"
  /\ entry.pc = "init"
  /\ \E ok \in BOOLEAN :
       /\ initialize_session_stored(RoomName, ok)
       /\ entry' = [entry EXCEPT
            !.pc = IF InitializeResult(ok) # "returned" THEN "raised"
                   ELSE IF variant = "opti" THEN "prompt" ELSE "agent",
            !.externals_ok = entry.externals_ok /\ ok]
       /\ UNCHANGED <<serviceVars, historyVars>>

\* get_system_prompt("homepage") with the fallback to the default instructions
\* (opti only).
EntryFetchPrompt ==
  /\ variant = "opti"
  /\ entry.shutdown = "no"
  /\ entry.pc = "prompt"
  /\ \E fetched \in BOOLEAN :
       EntryStep([entry EXCEPT
         !.pc = "agent",
         !.prompt = IF fetched THEN "fetched" ELSE "default",
         !.externals_ok = entry.externals_ok /\ fetched])

\* From the construction of the agent to session.start: PrepzoAgent(...),
\* AgentSession(...), the registration of the event handlers, session.start.
EntryRunAgent ==
  /\ entry.shutdown = "no"
  /\ entry.pc = "agent"
  /\ EntryStep(
       IF PrepzoAgentInit(variant) # None
         THEN [entry EXCEPT !.pc = "raised"]
         ELSE [entry EXCEPT
                 !.pc = "running",
                 !.log = entry.log \o <<"agent", "handlers", "started">>])

\* The job shuts down and the framework runs the registered shutdown hooks.
JobShutdown ==
  /\ entry.shutdown = "no"
  /\ LET hook == ShutdownHook(entry.store_created) IN
     EntryStep(
       IF entry.hook_registered
         THEN [entry EXCEPT !.shutdown = hook.ended, !.flushed = hook.flushed]
         ELSE [entry EXCEPT !.shutdown = "no_hook"])

NextEntry == EntryRegisterHook \/ EntryLoadPlugins \/ EntryConnect
               \/ EntryCreateStore \/ EntryInitializeSession
               \/ EntryFetchPrompt \/ EntryRunAgent \/ JobShutdown

SpecEntry == Init /\ [][NextEntry]_vars

\* C17 (as stated): when the job shuts down after the Conversation Store has
\* been created, the registered shutdown hook flushes the store and completes
\* without raising.
C17_ShutdownHookFlushes ==
  (entry.shutdown # "no" /\ entry.store_created) =>
    /\ entry.shutdown = "returned"
    /\ entry.flushed

\* C18 (as stated): a run of the entrypoint in which every external call
\* succeeded does not end in an exception; it has constructed the store, then
\* the agent, registered the handlers and started the session.
C18_EntrypointStartsSession ==
  (entry.externals_ok /\ entry.pc \in {"raised", "running"}) =>
    /\ entry.pc = "running"
    /\ entry.log = <<"store", "agent", "handlers", "started">>

\* C21: in the opti interceptor the chunks forwarded in a turn are a prefix of
\* the chunks received that ends before the chunk completing the sentinel
\* phrase, so the forwarded text never contains the complete phrase.
C21_SentinelNeverForwarded ==
  variant = "opti" =>
    /\ Len(forwarded) <= Len(received)
    /\ forwarded = SubSeq(received, 1, Len(forwarded))
    /\ StreamHasSentinel => Len(forwarded) < CompletingChunk
    /\ ~Contains(TextOf(forwarded), Sentinel)

\* C21 witness: the phrase arrived split over two chunks, followed by one more
\* chunk; only the chunk before the completing one went downstream.
C21_Witness ==
  /\ variant = "opti"
  /\ received = <<Chunk(SentinelHead, FALSE), Chunk(SentinelTail, FALSE),
                  Chunk(Str_now, FALSE)>>
  /\ forwarded = <<Chunk(SentinelHead, FALSE)>>
  /\ turn_pc = "complete"

\* The number of stored messages with the given role.
CountRole(msgs, role) == Cardinality({i \in 1..Len(msgs) : msgs[i].role = role})

\* A step of a turn of the opti interceptor whose manual request_resume call
\* has raised, the raising step included.
C22_Step ==
  (variant = "opti" /\ turn_pc = "streaming"
     /\ trigger_result' \notin {None, "returned"}) =>
    /\ turn_pc' = "raised" => stream_error
    /\ says' = 0
    /\ CountRole(messages', "system_tool_trigger")
         = CountRole(messages, "system_tool_trigger")
    /\ suppress_output_this_turn'
    /\ forwarded' = forwarded

\* C22: when request_resume raises in a triggered turn the exception stays in
\* llm_node (only an error of the stream itself ends the turn with an
\* exception), session.say is not called, no system_tool_trigger message is
\* appended, and no further chunk of the turn is forwarded.
C22_ToolErrorContained == [][C22_Step]_vars

\* C22 witness: the phrase arrived, request_resume raised, one more chunk
\* arrived and the stream ended; nothing was forwarded or said.
C22_Witness ==
  /\ variant = "opti"
  /\ trigger_result = "ToolError"
  /\ received = <<Chunk(Sentinel, FALSE), Chunk(Str_now, FALSE)>>
  /\ forwarded = <<>>
  /\ says = 0
  /\ CountRole(messages, "system_tool_trigger") = 0
  /\ turn_pc = "complete"

\* --------------------------------------- specification of the resume upload
\* The other sessions that upload a resume, in the order in which they do; the
\* agent of the model serves RoomName.
OtherRooms ==
  <<"room-2", "room-3", "room-4", "room-5", "room-6", "room-7", "room-8",
    "room-9", "room-10", "room-11">>

\* The sessions whose upload request may arrive next: the session of the model
\* at any time, each other session once.
Uploaders(done) ==
  LET n == Cardinality(done \ {RoomName}) IN
  {RoomName} \union (IF n < Len(OtherRooms) THEN {OtherRooms[n + 1]} ELSE {})

\* Suffixes of the file names clients send.
UploadSuffixes == {".pdf", ".doc", ".docx", ".PDF", ".txt"}

\* str.lower on a suffix.
Lower(suffix) == IF suffix = ".PDF" THEN ".pdf" ELSE suffix

\* process_resume: allowed_extensions.
allowed_extensions == {".pdf", ".doc", ".docx"}

\* get_resume_information / analyze_resume: the suffixes looked for, in order.
supported_formats == <<".pdf", ".docx">>

\* UPLOAD_FOLDER / f"{session_id}_resume{file_extension}": the name keeps the
\* suffix as it was sent.
UploadPath(session_id, file_extension) ==
  [session_id |-> session_id, suffix |-> file_extension]

\* How saving the file can end: written, or failing before or after the file
\* was created.
SaveOutcomes == {"ok", "open_error", "write_error"}

\* The HTTP status process_resume answers with.
UploadStatus(file_extension, saved) ==
  IF Lower(file_extension) \notin allowed_extensions THEN 400
  ELSE IF saved = "ok" THEN 200
  ELSE 500

\* process_resume for a request with a file and a session id.
process_resume(session_id, file_extension, saved) ==
  LET status == UploadStatus(file_extension, saved) IN
  /\ uploads' =
       IF status = 200 \/ (status = 500 /\ saved = "write_error")
         THEN uploads \union {UploadPath(session_id, file_extension)}
         ELSE uploads
  /\ accepted' = IF status = 200 THEN accepted \union {session_id} ELSE accepted

\* The number of items at which the lookup empties the uploads folder.
CleanupNeeded(v, folder) ==
  IF v = "opti" THEN Cardinality(folder) > 10 ELSE Cardinality(folder) >= 10

\* _cleanup_old_uploads and the cleanup block of the root tool: every item of
\* the folder is deleted once the threshold is reached.
CleanupOldUploads(v, folder) ==
  IF CleanupNeeded(v, folder) THEN {} ELSE folder

\* The folder after get_resume_information: the opti service returns before the
\* cleanup when it is not configured.
UploadsAfterLookup(v, folder, configured) ==
  IF v = "opti" /\ ~configured THEN folder
  ELSE CleanupOldUploads(v, folder)

\* The lookup loop over supported_formats (file names are case-sensitive).
ResumeFound(folder, session_id) ==
  \E i \in 1..Len(supported_formats) :
    UploadPath(session_id, supported_formats[i]) \in folder

\* An upload request arrives: any file name and outcome for the session of
\* the model, a saved PDF for another session.
UploadResume ==
  /\ \E session_id \in Uploaders(accepted) :
       \E file_extension \in
            (IF session_id = RoomName THEN UploadSuffixes ELSE {".pdf"}),
          saved \in (IF session_id = RoomName THEN SaveOutcomes ELSE {"ok"}) :
         process_resume(session_id, file_extension, saved)
  /\ UNCHANGED <<storeVars, toolVars, turnVars, sessionVars, mailVars,
                 llmVars, dynVars, historyVars>>

\* The agent of RoomName calls get_resume_information.
LookupResume ==
  /\ tool_calls_made < MaxToolCalls
  /\ \E configured \in BOOLEAN, analysis \in {"ok", "raise"} :
       LET folder == UploadsAfterLookup(variant, uploads, configured)
           env == [DefaultEnv EXCEPT !.configured = configured,
                                     !.file = ResumeFound(folder, RoomName),
                                     !.analysis = analysis]
       IN /\ invoke_tool("get_resume_information", Str_star, env)
          /\ uploads' = folder
  /\ UNCHANGED <<accepted, turnVars, sessionVars, mailVars, llmVars, dynVars,
                 historyVars>>

NextUploads == UploadResume \/ LookupResume

SpecUploads == Init /\ [][NextUploads]_vars

\* The answers of get_resume_information that say no resume was found.
NoResumeAnswers == {NoResumeFoundText, "No resume uploaded"}

\* C23 (as stated): once the endpoint has accepted and saved a resume for the
\* session, a get_resume_information call for the session never answers that
\* no resume was uploaded.
C23_AcceptedResumeFound ==
  [][(RoomName \in accepted /\ tool_calls_made' = tool_calls_made + 1)
       => last_tool'.returned.text \notin NoResumeAnswers]_vars

\* C24 (as stated): a tool call made for the session leaves the uploaded files
\* of every other session in place.
C24_OtherSessionsUntouched ==
  [][tool_calls_made' = tool_calls_made + 1
       => {f \in uploads : f.session_id # RoomName} \subseteq uploads']_vars

\* ------------------------------- specification of writes with their outcome
\* The failures of the write tasks, recorded under the number of the
\* add_message call that created the task.
RecordWrite(ok) ==
  failed_writes' =
    IF ok THEN failed_writes ELSE failed_writes \union {Head(ready).call}

RecordedUpdateOpti ==
  \E ok \in BOOLEAN : update_conversation_history_opti(ok) /\ RecordWrite(ok)

RecordedUpdateTables ==
  \E ok \in BOOLEAN : update_tables(ok) /\ RecordWrite(ok)

NextRecover == AddMessage \/ RunStoreUserEmail \/ RunUpdateRoot
                 \/ RecordedUpdateOpti \/ RecordedUpdateTables

SpecRecover == Init /\ [][NextRecover]_vars

\* A step in which a durable write completes: the upsert of the opti task or
\* of update_tables.
WriteCompletes ==
  /\ ready # <<>>
  /\ Head(ready).kind =
       (IF variant = "opti" THEN "update_conversation_history"
        ELSE "update_tables")
  /\ ready' = Tail(ready)

\* C25: every durable write that succeeds leaves in the row all the messages
\* appended so far, those whose own write failed included.
C25_LaterWriteRecovers ==
  [][(WriteCompletes /\ failed_writes' = failed_writes) =>
       /\ conversation_histories'.exists
       /\ conversation_histories'.conversation = passed]_vars

\* C25 witness: the write of the first add_message failed, the write of the
\* last one succeeded, and the row holds every message.
C25_Witness ==
  /\ 1 \in failed_writes
  /\ Len(passed) >= 2
  /\ Len(passed) \notin failed_writes
  /\ PendingWrites(ready) = {}
  /\ conversation_histories.exists
  /\ conversation_histories.conversation = passed

\* ------------------------------------------- specification of send_email
Str_valid == <<"a", "@", "b", ".", "c">>
Str_trailing == <<"a", "@", "b", ".", "c", "@">>
Str_no_local == <<"@", "b", ".", "c">>

\* Recipient addresses the model passes to send_email.
Recipients == {Str_valid, Str_trailing, Str_mail, Str_no_local}

\* re.match(r"[^@]+@[^@]+\.[^@]+", s): anchored at the start only; a run of
\* characters other than '@', an '@', a second such run, a '.', and at least
\* one more character other than '@'.
EmailFormatOk(s) ==
  \E i \in 2..Len(s) :
    /\ s[i] = "@"
    /\ \A k \in 1..(i - 1) : s[k] # "@"
    /\ \E j \in (i + 2)..(Len(s) - 1) :
         /\ s[j] = "."
         /\ \A k \in (i + 1)..(j - 1) : s[k] # "@"
         /\ s[j + 1] # "@"

InvalidEmailText == "The email address seems incorrect. Please provide a valid one."
EmailSentText == "Email sent successfully to <recipient>."
EmailErrorLogText == "Error sending email: <e>"
EmailErrorText == "There was an error sending your email. Please try again later."

\* log_data of send_email.
PendingLog(recipient) ==
  [email |-> recipient, status |-> "pending", email_sent |-> FALSE,
   error |-> None]

\* SupabaseEmailClient.create_email_log: the table after the insert and the id
\* returned, 0 standing for None when the insert failed.
create_email_log(rows, log_data, inserted) ==
  IF inserted
    THEN [rows |-> Append(rows, log_data), log_id |-> Len(rows) + 1]
    ELSE [rows |-> rows, log_id |-> 0]

\* SupabaseEmailClient.update_email_log, awaited: nothing happens without an
\* id or when the update fails.
update_email_log(rows, log_id, update_data, updated) ==
  IF log_id = 0 \/ ~updated THEN rows
  ELSE [rows EXCEPT ![log_id] =
          [@ EXCEPT !.status = update_data.status,
                    !.email_sent = update_data.email_sent,
                    !.error = update_data.error]]

\* self.supabase.update_email_log(...) without await in the except clause: the
\* coroutine object is created and dropped, its body never runs.
update_email_log_not_awaited(rows, log_id, update_data, updated) == rows

\* Outcomes of the external calls of send_email.
MailEnvs == [inserted : BOOLEAN, smtp : Outcome, updated : BOOLEAN]

\* EmailTools.send_email: the rows of email_logs afterwards, the id of the row
\* created, the SMTP connections opened, whether the mail went out, and the
\* tool's result.
send_email(rows, recipient_email, env) ==
  IF ~EmailFormatOk(recipient_email)
    THEN [rows |-> rows, log_id |-> 0, connections |-> 0, delivered |-> FALSE,
          outcome |-> Returned(InvalidEmailText, LogToolResult(InvalidEmailText))]
  ELSE
    LET created == create_email_log(rows, PendingLog(recipient_email),
                                    env.inserted)
    IN IF env.smtp = "ok"
         THEN [rows |-> update_email_log(created.rows, created.log_id,
                          [status |-> "sent", email_sent |-> TRUE,
                           error |-> None], env.updated),
               log_id |-> created.log_id, connections |-> 1,
               delivered |-> TRUE,
               outcome |-> Returned(EmailSentText, LogToolResult(EmailSentText))]
         ELSE [rows |-> update_email_log_not_awaited(created.rows,
                          created.log_id,
                          [status |-> "failed", email_sent |-> FALSE,
                           error |-> EmailErrorLogText], env.updated),
               log_id |-> created.log_id, connections |-> 1,
               delivered |-> FALSE,
               outcome |-> Returned(EmailErrorText,
                                    LogToolResult(EmailErrorLogText))]

\* The model calls send_email (a tool of the opti EmailTools).
SendEmail ==
  /\ variant = "opti"
  /\ tool_calls_made < MaxToolCalls
  /\ \E recipient_email \in Recipients, env \in MailEnvs :
       LET r == send_email(email_logs, recipient_email, env) IN
       /\ add_messages(r.outcome.logged)
       /\ last_tool' = [tool |-> "send_email", returned |-> r.outcome.returned,
                        raised |-> r.outcome.raised,
                        logged |-> Len(r.outcome.logged)]
       /\ email_logs' = r.rows
       /\ smtp_connections' = smtp_connections + r.connections
       /\ last_send' = [called |-> TRUE,
                        valid |-> EmailFormatOk(recipient_email),
                        delivered |-> r.delivered, log_id |-> r.log_id,
                        rows_created |-> Len(r.rows) - Len(email_logs),
                        connections |-> r.connections]
  /\ tool_calls_made' = tool_calls_made + 1
  /\ UNCHANGED <<variant, participant_id, emails, conversation_histories,
                 user_emails, inits, agent_state, session_emails>>
  /\ UNCHANGED <<turnVars, sessionVars, uploadVars, llmVars, dynVars,
                 historyVars>>

NextMail == SendEmail \/ RunUpdateOpti

SpecMail == Init /\ [][NextMail]_vars

\* C26 (as stated): when send_email has returned, the email_logs row created
\* for the attempt has status "sent" if delivery succeeded and "failed" with
\* the error text if it raised, never "pending"; an address that fails
\* validation creates no row and opens no SMTP connection.
C26_LogNeverPending ==
  last_send.called =>
    /\ last_send.log_id # 0 =>
         IF last_send.delivered
           THEN email_logs[last_send.log_id].status = "sent"
           ELSE /\ email_logs[last_send.log_id].status = "failed"
                /\ email_logs[last_send.log_id].error = EmailErrorLogText
    /\ ~last_send.valid =>
         last_send.rows_created = 0 /\ last_send.connections = 0

\* ---------------------------------------- specification of safe_generate
Callers == 1..MaxCallers

\* Default of GEMINI_MAX_CONCURRENCY.
GEMINI_MAX_CONCURRENCY == 3

\* Values of int(os.getenv("GEMINI_MAX_CONCURRENCY", 3)) the model covers.
ConcurrencyValues == 1..GEMINI_MAX_CONCURRENCY

\* The attempt after which safe_generate no longer retries.
MaxAttempts == 5

\* str(e) of the exceptions the underlying chat call raises.
ErrorTexts == {<<"5", "0", "3">>, <<"5", "0", "0">>, <<"4", "0", "0">>}

\* The error is a server error (its status is 5xx).
Is5xx(e) == e[1] = "5"

RetriedWithoutLimit(e, attempts) == Contains(e, <<"5", "0", "3">>)

\* "503" not in str(e) or attempts >= 5, negated: the error is retried.
Retried(e, attempts) == Contains(e, <<"5", "0", "3">>) /\ attempts < MaxAttempts

\* random.uniform(0, 0.3), in tenths of a second: the ends of the interval.
Jitters == {0, 3}

\* What safe_generate does not touch.
nonLLMVars == <<storeVars, toolVars, turnVars, sessionVars, uploadVars,
                mailVars, dynVars, historyVars>>

\* The other callers are left as they are.
OnlyCaller(c, after) == callers' = [callers EXCEPT ![c] = after]

\* The caller once safe_generate is over: its locals are gone.
Finished(caller, pc) ==
  [caller EXCEPT !.pc = pc, !.attempts = 0, !.backoff = 0, !.delay = 0]

\* _SEM = asyncio.Semaphore(int(os.getenv("GEMINI_MAX_CONCURRENCY", 3)))
CreateSemaphore ==
  /\ variant = "opti"
  /\ sem.size = 0
  /\ \E n \in ConcurrencyValues : sem' = [size |-> n, value |-> n]
  /\ UNCHANGED <<callers, nonLLMVars>>

\* safe_generate is called: backoff = 1.0, attempts = 0, then the first
\* attempts += 1 of the loop. Callers are interchangeable and start in order.
StartCall(c) ==
  /\ sem.size > 0
  /\ callers[c].pc = "idle"
  /\ c > 1 => callers[c - 1].pc # "idle"
  /\ OnlyCaller(c, [callers[c] EXCEPT !.pc = "acquiring", !.attempts = 1,
                                      !.backoff = 10])
  /\ UNCHANGED <<sem, nonLLMVars>>

\* async with _SEM, entry: the permit is taken when the value is positive.
Acquire(c) ==
  /\ callers[c].pc = "acquiring"
  /\ sem.value > 0
  /\ sem' = [sem EXCEPT !.value = @ - 1]
  /\ OnlyCaller(c, [callers[c] EXCEPT !.pc = "in_call", !.permit = TRUE])
  /\ UNCHANGED nonLLMVars

KeptOnExit(caller) == caller

\* The caller's state once async with _SEM is left, by return or exception.
ReleasedOnExit(caller) == [caller EXCEPT !.permit = FALSE]

\* The semaphore once the caller left async with _SEM.
SemAfterExit(caller) ==
  IF ReleasedOnExit(caller).permit THEN sem
  ELSE [sem EXCEPT !.value = @ + 1]

\* return await super().chat(...): the call succeeds and its result is
\* returned.
CallReturns(c) ==
  /\ callers[c].pc = "in_call"
  /\ sem' = SemAfterExit(callers[c])
  /\ OnlyCaller(c, Finished(ReleasedOnExit(callers[c]), "returned"))
  /\ UNCHANGED nonLLMVars

\* The caller after its attempt raised e: the exception is raised again, or
\* the caller sleeps backoff + jitter.
AfterError(caller, e, jitter) ==
  IF Retried(e, caller.attempts)
    THEN [caller EXCEPT !.pc = "sleeping", !.error = e,
                        !.delay = caller.backoff + jitter]
    ELSE Finished([caller EXCEPT !.error = e, !.raised = e], "raised")

\* The underlying call raises e inside async with _SEM.
CallFails(c) ==
  /\ callers[c].pc = "in_call"
  /\ sem' = SemAfterExit(callers[c])
  /\ \E e \in ErrorTexts, jitter \in Jitters :
       OnlyCaller(c, AfterError(ReleasedOnExit(callers[c]), e, jitter))
  /\ UNCHANGED nonLLMVars

\* asyncio.sleep returns: backoff *= 2, and the next attempts += 1.
WakeUp(c) ==
  /\ callers[c].pc = "sleeping"
  /\ OnlyCaller(c, [callers[c] EXCEPT !.pc = "acquiring",
                                      !.backoff = 2 * @,
                                      !.attempts = @ + 1, !.delay = 0])
  /\ UNCHANGED <<sem, nonLLMVars>>

RunStartCall == \E c \in Callers : StartCall(c)

RunAcquire == \E c \in Callers : Acquire(c)

RunCallReturns == \E c \in Callers : CallReturns(c)

RunCallFails == \E c \in Callers : CallFails(c)

RunWakeUp == \E c \in Callers : WakeUp(c)

NextLLM ==
  \/ CreateSemaphore
  \/ RunStartCall
  \/ RunAcquire
  \/ RunCallReturns
  \/ RunCallFails
  \/ RunWakeUp

SpecLLM == Init /\ [][NextLLM]_vars

\* The step ends an attempt of caller c with an exception.
AttemptFailed(c) ==
  callers[c].pc = "in_call" /\ callers'[c].pc \in {"sleeping", "raised"}

\* 1, 2, 4, 8 seconds, in tenths, before attempts 2 to 5.
BackoffBefore(attempt) ==
  CASE attempt = 2 -> 10 [] attempt = 3 -> 20 [] attempt = 4 -> 40
    [] attempt = 5 -> 80 [] OTHER -> 0

\* C27 (as stated): a call that fails with a 5xx error before the last
\* attempt is retried after the exponential back-off (1, 2, 4, 8 seconds plus
\* a jitter of at most 0.3 s), and a successful attempt ends the call with
\* its result.
C27_Step ==
  \A c \in Callers :
    /\ (AttemptFailed(c) /\ Is5xx(callers'[c].error)
          /\ callers[c].attempts < MaxAttempts) =>
         /\ callers'[c].pc = "sleeping"
         /\ callers'[c].delay >= BackoffBefore(callers[c].attempts + 1)
         /\ callers'[c].delay <= BackoffBefore(callers[c].attempts + 1) + 3
    /\ (callers[c].pc = "sleeping" /\ callers'[c].pc # "sleeping") =>
         /\ callers'[c].pc = "acquiring"
         /\ callers'[c].attempts = callers[c].attempts + 1

C27_Retries5xx == [][C27_Step]_vars

\* The callers whose underlying call is in flight.
InFlight == {c \in Callers : callers[c].pc = "in_call"}

\* C28: at most GEMINI_MAX_CONCURRENCY (3 by default) underlying calls are in
\* flight at any time, across callers and retries; only a caller whose call is
\* in flight holds a permit, so a caller waiting between attempts holds none.
C28_BoundedConcurrency ==
  sem.size > 0 =>
    /\ Cardinality(InFlight) <= sem.size
    /\ sem.size <= GEMINI_MAX_CONCURRENCY
    /\ \A c \in Callers : callers[c].permit <=> c \in InFlight
    /\ sem.value = sem.size - Cardinality(InFlight)

\* A caller sleeps between attempts while the semaphore is exhausted by calls
\* in flight and another caller waits for a permit.
C28_Witness ==
  /\ sem.value = 0
  /\ \E c \in Callers : callers[c].pc = "sleeping"
  /\ \E c \in Callers : callers[c].pc = "acquiring"
  /\ Cardinality(InFlight) = sem.size

\* C29: a safe_generate call makes at most 5 attempts and never sleeps after
\* the fifth; a failed attempt that is not retried ends the call with the
\* error of that attempt, which is so for every error without "503" in its
\* text; a call that returned or raised makes no further attempt.
C29_Step ==
  \A c \in Callers :
    /\ callers'[c].attempts <= MaxAttempts
    /\ callers'[c].pc = "sleeping" => callers'[c].attempts < MaxAttempts
    /\ AttemptFailed(c) =>
         /\ callers'[c].pc = "raised" => callers'[c].raised = callers'[c].error
         /\ ~Contains(callers'[c].error, <<"5", "0", "3">>) =>
              callers'[c].pc = "raised"
         /\ callers[c].attempts = MaxAttempts => callers'[c].pc = "raised"
    /\ callers[c].pc \in {"returned", "raised"} => callers'[c] = callers[c]

C29_AtMostFiveAttempts == [][C29_Step]_vars

\* A call raised the "503" error of its fifth attempt, another raised a
\* non-retryable error, and a third returned.
C29_Witness ==
  /\ \E c \in Callers :
       callers[c].pc = "raised" /\ callers[c].raised = <<"5", "0", "3">>
  /\ \E c \in Callers :
       callers[c].pc = "raised" /\ callers[c].raised = <<"4", "0", "0">>
  /\ \E c \in Callers : callers[c].pc = "returned"

\* ------------------------------------------ specification of DynamicLLM
\* A column is absent from the row.
Absent == "absent"

ConfigRows ==
  [provider : {Absent, "google", "gemini", "groq", "openai", "mistral"},
   model : {Absent, "gemini-2.0-flash", "llama-3"},
   temperature : {Absent, "0.8", "0.2"}]

\* _FALLBACK
FALLBACK == [provider |-> "google", model |-> "gemini-2.0-flash",
             temperature |-> "0.8"]

\* _PROVIDER_MAP.get(provider): the constructor, None for an unknown name.
PROVIDER_MAP(provider) ==
  CASE provider \in {"google", "gemini"} -> "google.LLM"
    [] provider = "groq" -> "groq.LLM"
    [] provider = "openai" -> "openai.LLM"
    [] OTHER -> None

\* data.get(key, _FALLBACK[key])
GetOr(data, key) == IF data[key] = Absent THEN FALLBACK[key] ELSE data[key]

\* DynamicLLM._fetch_cfg: the configuration of the row when the query
\* succeeded and returned data; otherwise the function ends without a return
\* statement and the caller gets None.
fetch_cfg(row, fetch) ==
  IF fetch = "ok" /\ row # NoneCfg
    THEN [provider |-> GetOr(row, "provider"), model |-> GetOr(row, "model"),
          temperature |-> GetOr(row, "temperature")]
    ELSE NoneCfg

\* DynamicLLM._refresh on the object self: the object afterwards, error
\* naming the exception the call raised.
refresh(self, row, fetch) ==
  LET cfg == fetch_cfg(row, fetch)
      seen == [self EXCEPT !.fetched = cfg, !.refreshed = TRUE,
                           !.found = (fetch = "ok" /\ row # NoneCfg),
                           !.error = None]
  IN IF cfg = self.current_cfg THEN seen
     ELSE IF cfg = NoneCfg THEN [seen EXCEPT !.error = "TypeError"]
     ELSE IF PROVIDER_MAP(cfg.provider) = None THEN seen
     ELSE [seen EXCEPT !.llm = [ctor |-> PROVIDER_MAP(cfg.provider),
                                model |-> cfg.model,
                                temperature |-> cfg.temperature],
                       !.current_cfg = cfg]

\* An operator writes or deletes row 1 of llm_configs.
SetConfigRow ==
  /\ variant = "opti"
  /\ llm_configs' \in (ConfigRows \cup {NoneCfg}) \ {llm_configs}
  /\ UNCHANGED <<storeVars, toolVars, turnVars, sessionVars, uploadVars,
                 mailVars, llmVars, dynamic_llm, historyVars>>

\* One round of _watch_loop: _refresh, its exception logged.
WatchRefresh ==
  /\ variant = "opti"
  /\ \E fetch \in Outcome :
       dynamic_llm' = refresh(dynamic_llm, llm_configs, fetch)
  /\ UNCHANGED <<storeVars, toolVars, turnVars, sessionVars, uploadVars,
                 mailVars, llmVars, llm_configs, historyVars>>

\* DynamicLLM.generate: _refresh first while no plugin is installed, its
\* exception propagating; then self._llm.generate, which raises
\* AttributeError when _llm is still None.
Generate ==
  /\ variant = "opti"
  /\ \E fetch \in Outcome :
       LET after == IF dynamic_llm.llm = NoLLM
                      THEN refresh(dynamic_llm, llm_configs, fetch)
                      ELSE [dynamic_llm EXCEPT !.error = None]
       IN dynamic_llm' =
            IF after.error = None /\ after.llm = NoLLM
              THEN [after EXCEPT !.error = "AttributeError"]
              ELSE after
  /\ UNCHANGED <<storeVars, toolVars, turnVars, sessionVars, uploadVars,
                 mailVars, llmVars, llm_configs, historyVars>>

NextDynamic == SetConfigRow \/ WatchRefresh \/ Generate

SpecDynamic == Init /\ [][NextDynamic]_vars

\* C30 (as stated): whenever the configuration row is missing or the fetch
\* fails, _fetch_cfg returns the fallback configuration (google,
\* gemini-2.0-flash, 0.8), so that the _refresh that called it leaves an LLM
\* installed.
C30_FallbackConfig ==
  (dynamic_llm.refreshed /\ ~dynamic_llm.found) =>
    /\ dynamic_llm.fetched = FALLBACK
    /\ dynamic_llm.llm # NoLLM

====
